---- MODULE Spec2Model ----
(***************************************************************************)
(* A model of the d1x exchange server: the order book of one stock        *)
(* (src/types/stock.rs), the market that holds the books                   *)
(* (src/types/mod.rs) and the engine loop that serves the connections      *)
(* (src/main.rs).                                                          *)
(*                                                                         *)
(* Representation.  An f64 price is represented by its number of          *)
(* thousandths (RealScale units per 1.0), so that the truncation of        *)
(* Order::new to the two-decimal grid is a real division and not the       *)
(* identity.  A fixed-point price (usize) is a number of hundredths.       *)
(* Option<T> is a sequence of length 0 (None) or 1 (Some).                 *)
(*                                                                         *)
(* Ghost state.  Orders carry a field seq, the number of the add call      *)
(* that put them on a book; resolve returns, beside the trades, one fill   *)
(* record per trade that remembers the two orders as they were when the    *)
(* trade fired.  Ghost state is only read by the properties.               *)
(***************************************************************************)
EXTENDS Integers, Sequences, FiniteSets, TLC

\* ------------------------------------------------------------ constants
PRICE_PRECISION_FACTOR == 100
NO_OF_PRICES_QUERIED == 5
\* mpsc::channel::<(usize, Query)>(32) and mpsc::channel::<QueryResponse>(32)
INBOUND_CAPACITY == 32
OUTBOUND_CAPACITY == 32

\* An f64 is represented by its number of thousandths.
RealScale == PRICE_PRECISION_FACTOR * 10

\* ------------------------------------------------------------ bounds
\* SpecBook: number of add calls
MaxOrders == 3
\* SpecOhlc: number of trades and of trade prices
MaxTrades == 4
OhlcMaxPrice == 4
\* SpecDepth: number of add calls and of price levels (more than
\* NO_OF_PRICES_QUERIED, so that the cap is met)
DepthMaxOrders == 7
DepthMaxPrice == 6
\* SpecEngine: connections accepted, requests written by the clients, ticks
\* awaited by the market loop
MaxConn == 1
MaxRequests == 2
MaxTicks == 2
\* SpecCross: the latest reading of the clock
CrossMaxTime == 1

\* ------------------------------------------------------------ state
VARIABLES
    market,      \* Market.stocks: key -> Stock
    trades,      \* the Vec<Trade> the last operation returned (empty for an add)
    reply,       \* the value returned by the last depth query
    last_op,     \* the operation that was applied last
    nextSeq,     \* ghost: number of orders added so far
    fills,       \* ghost: one record per element of trades
    spent,       \* ghost: the orders the last operation dropped from the queues
    priceLog,    \* ghost: the price of every trade so far, oldest first
    connections, \* main: conn id -> the Sender registered for it (named by its conn id)
    market_rx,   \* the inbound channel: (id, query) pairs, oldest first
    socket_rx,   \* conn id -> the outbound channel of that connection
    engine_pc,   \* where the market loop of main is
    outbox,      \* the sends the engine still has to make at engine_pc
    current,     \* the (id, query) that try_recv returned last
    tick,        \* number of ticks the market loop has awaited
    next_id,     \* serve: the id of the next connection
    session,     \* conn id -> "none", "open" (handler running) or "closed"
    nextReq,     \* number of requests the clients have written so far
    pushed,      \* ghost: the sends made for the trades of the last resolve, in order
    stream,      \* ghost: conn id -> the reply written last to its socket: the
                 \* number of the request it answers and the text
    history,     \* ghost: the requests the engine has dequeued and the trades it
                 \* has pushed, with the tick (kept in SpecRoute)
    serve_pc,    \* where serve is: "accept", "join" (ctrl_c seen, shutdown signal
                 \* sent, joining the handlers) or "done" (returned)
    capacity,    \* the capacities the two kinds of channel were made with
    pending,     \* conn id -> the query its handler is sending into the inbound
                 \* channel (at most one)
    now          \* the clock Order::new reads

bookVars == <<market, trades, reply, last_op, nextSeq, fills, spent, priceLog>>

engineVars == <<connections, market_rx, socket_rx, engine_pc, outbox, current,
                tick, next_id, session, nextReq, pushed, stream, history,
                serve_pc, capacity, pending, now>>

vars == <<bookVars, engineVars>>

\* ------------------------------------------------------------ Option, min, max
None == <<>>

Some(x) == <<x>>

is_none(o) == o = <<>>

unwrap_or(o, default) == IF o = <<>> THEN default ELSE o[1]

f64_max(a, b) == IF a >= b THEN a ELSE b

f64_min(a, b) == IF a <= b THEN a ELSE b

usize_min(a, b) == IF a <= b THEN a ELSE b

\* ------------------------------------------------------------ Ohlc
OhlcNew == [open |-> None, high |-> None, low |-> None, close |-> None]

\* mutant: open follows the latest price
ohlc_open_latest(ohlc, latest_price) == Some(latest_price)

ohlc_open(ohlc, latest_price) ==
    IF is_none(ohlc.open) THEN Some(latest_price) ELSE ohlc.open

ohlc_high(ohlc, latest_price) ==
    Some(f64_max(unwrap_or(ohlc.high, latest_price), latest_price))

ohlc_low(ohlc, latest_price) ==
    Some(f64_min(unwrap_or(ohlc.low, latest_price), latest_price))

OhlcUpdate(ohlc, latest_price) ==
    [open  |-> ohlc_open(ohlc, latest_price),
     high  |-> ohlc_high(ohlc, latest_price),
     low   |-> ohlc_low(ohlc, latest_price),
     close |-> Some(latest_price)]

OhlcGet(ohlc) == <<ohlc.open, ohlc.high, ohlc.low, ohlc.close>>

\* ------------------------------------------------------------ Order
\* price is an f64 (thousandths); the stored price is truncated to hundredths.
OrderNew(creator_id, price, quantity, time) ==
    [creator_id |-> creator_id,
     price      |-> (price * PRICE_PRECISION_FACTOR) \div RealScale,
     quantity   |-> quantity,
     time       |-> time]

get_price(order) == (order.price * RealScale) \div PRICE_PRECISION_FACTOR

get_unadjusted_price(order) == order.price

get_quantity(order) == order.quantity

get_time(order) == order.time

order_resolve(order, quantity) ==
    [order EXCEPT !.quantity = @ - quantity]

\* ghost: the order with the number of the add call that admits it, the
\* quantity and price it was created with, the quantity it has traded so far
\* and the tick of the engine in which it was added (0 outside the engine)
Tagged(order, n) ==
    [creator_id |-> order.creator_id, price |-> order.price,
     quantity |-> order.quantity, time |-> order.time,
     seq |-> n, original |-> order.quantity, traded |-> 0,
     limit |-> order.price, admitted |-> 0]

Traded(order, quantity) == [order EXCEPT !.traded = @ + quantity]

AdmittedAt(order, t) == [order EXCEPT !.admitted = t]

\* ------------------------------------------------------------ Trade
TradeNew(buyer_id, seller_id, price, quantity) ==
    [buyer_id |-> buyer_id, seller_id |-> seller_id,
     price |-> price, quantity |-> quantity]

\* ------------------------------------------------------------ Stock
StockNew(symbol, name) ==
    [symbol |-> symbol, name |-> name,
     buy_orders |-> <<>>, sell_orders |-> <<>>, ohlc |-> OhlcNew]

get_symbol(stock) == stock.symbol

get_name(stock) == stock.name

\* Vec::sort_by is a stable sort.  The comparator of buy_orders is
\* b.price.partial_cmp(&a.price), that of sell_orders a.price.partial_cmp(&b.price).
\* mutant: the buy queue sorted in ascending order
buy_cmp_greater_ascending(a, b) == a.price > b.price

buy_cmp_greater(a, b) == a.price < b.price

\* mutant: an unstable order, a new order goes before its equals
sell_cmp_greater_or_equal(a, b) == a.price >= b.price

sell_cmp_greater(a, b) == a.price > b.price

sorts_after(a, b, descending) ==
    IF descending THEN buy_cmp_greater(a, b) ELSE sell_cmp_greater(a, b)

RECURSIVE insert_sorted(_, _, _)
insert_sorted(s, x, descending) ==
    IF s = <<>> THEN <<x>>
    ELSE IF sorts_after(Head(s), x, descending) THEN <<x>> \o s
    ELSE <<Head(s)>> \o insert_sorted(Tail(s), x, descending)

RECURSIVE sort_by(_, _)
sort_by(s, descending) ==
    IF s = <<>> THEN <<>>
    ELSE insert_sorted(sort_by(SubSeq(s, 1, Len(s) - 1), descending),
                       s[Len(s)], descending)

sort_orders(stock) ==
    [stock EXCEPT !.buy_orders = sort_by(@, TRUE),
                  !.sell_orders = sort_by(@, FALSE)]

add_buy_order(stock, order) ==
    sort_orders([stock EXCEPT !.buy_orders = Append(@, order)])

add_sell_order(stock, order) ==
    sort_orders([stock EXCEPT !.sell_orders = Append(@, order)])

get_ohlc(stock) == OhlcGet(stock.ohlc)

\* ---- Stock::resolve
\* `if buy_order.get_price() >= sell_order.get_price()`
\* mutant: the price check left out
can_match_unchecked(buy_order, sell_order) == TRUE

\* mutant: orders of equal price do not trade
can_match_strict(buy_order, sell_order) ==
    get_price(buy_order) > get_price(sell_order)

can_match(buy_order, sell_order) ==
    get_price(buy_order) >= get_price(sell_order)

\* mutant: the midpoint of the two limit prices
execution_price_midpoint(buy_order, sell_order) ==
    (get_price(buy_order) + get_price(sell_order)) \div 2

\* `let price = if sell_order.get_time() < buy_order.get_time() {..} else {..}`
execution_price(buy_order, sell_order) ==
    IF get_time(sell_order) < get_time(buy_order)
    THEN get_price(sell_order)
    ELSE get_price(buy_order)

\* mutant: the whole residual of the buy order
execution_quantity_of_buyer(buy_order, sell_order) ==
    get_quantity(buy_order)

\* `let quantity = buy_order.get_quantity().min(sell_order.get_quantity())`
execution_quantity(buy_order, sell_order) ==
    usize_min(get_quantity(buy_order), get_quantity(sell_order))

\* ghost: the orders of a queue that are served before order o (a better
\* price, or the same price and added earlier), as they are now
HasPriority(x, o, descending) ==
    \/ IF descending THEN x.price > o.price ELSE x.price < o.price
    \/ x.price = o.price /\ x.seq < o.seq

RECURSIVE SumQuantity(_)
SumQuantity(s) ==
    IF s = <<>> THEN 0 ELSE Head(s).quantity + SumQuantity(Tail(s))

ResidualAhead(queue, o, descending) ==
    SumQuantity(SelectSeq(queue, LAMBDA x : HasPriority(x, o, descending)))

\* ghost: what a trade looked like when it fired
FillOf(st, buy_order, sell_order) ==
    [buy        |-> buy_order,
     sell       |-> sell_order,
     buy_ahead  |-> ResidualAhead(st.buy_orders, buy_order, TRUE),
     sell_ahead |-> ResidualAhead(st.sell_orders, sell_order, FALSE)]

\* One match of the inner loop: both orders are reduced, the trade is pushed
\* and the OHLC is updated.  st is the state of the call: the two queues, the
\* OHLC, the trades pushed so far (and their ghost fills).
fire_trade(st, i, j) ==
    LET buy_order  == st.buy_orders[i]
        sell_order == st.sell_orders[j]
        price      == execution_price(buy_order, sell_order)
        quantity   == execution_quantity(buy_order, sell_order)
    IN  [buy_orders  |-> [st.buy_orders EXCEPT
                              ![i] = Traded(order_resolve(@, quantity), quantity)],
         sell_orders |-> [st.sell_orders EXCEPT
                              ![j] = Traded(order_resolve(@, quantity), quantity)],
         ohlc        |-> OhlcUpdate(st.ohlc, price),
         trades      |-> Append(st.trades,
                                TradeNew(buy_order.creator_id,
                                         sell_order.creator_id, price, quantity)),
         fills       |-> Append(st.fills, FillOf(st, buy_order, sell_order))]

\* `for sell_order in &mut self.sell_orders`, from the j-th sell order on,
\* for the i-th buy order
RECURSIVE resolve_sells(_, _, _)
resolve_sells(st, i, j) ==
    IF j > Len(st.sell_orders) THEN st
    ELSE IF get_quantity(st.sell_orders[j]) = 0
         THEN resolve_sells(st, i, j + 1)                         \* continue
    ELSE IF can_match(st.buy_orders[i], st.sell_orders[j])
         THEN LET st2 == fire_trade(st, i, j)
              IN  IF get_quantity(st2.buy_orders[i]) = 0
                  THEN st2                                        \* break
                  ELSE resolve_sells(st2, i, j + 1)
    ELSE st                                                       \* break

\* `for buy_order in &mut self.buy_orders`, from the i-th buy order on
RECURSIVE resolve_buys(_, _)
resolve_buys(st, i) ==
    IF i > Len(st.buy_orders) THEN st
    ELSE IF st.sell_orders = <<>> THEN st                         \* break
    ELSE IF get_price(st.buy_orders[i]) < get_price(st.sell_orders[1])
         THEN st                                                  \* break
    ELSE resolve_buys(resolve_sells(st, i, 1), i + 1)

\* mutant: the spent orders stay in the queue
retain_all(orders) == orders

\* `retain(|order| order.get_quantity() > 0)`
retain_unspent(orders) ==
    SelectSeq(orders, LAMBDA order : get_quantity(order) > 0)

\* Stock::resolve: the stock after the call, the trades it returns, and the
\* ghost fills.
stock_resolve(stock) ==
    LET st == resolve_buys([buy_orders  |-> stock.buy_orders,
                            sell_orders |-> stock.sell_orders,
                            ohlc        |-> stock.ohlc,
                            trades      |-> <<>>,
                            fills       |-> <<>>], 1)
    IN  [stock  |-> [stock EXCEPT !.buy_orders  = retain_unspent(st.buy_orders),
                                  !.sell_orders = retain_unspent(st.sell_orders),
                                  !.ohlc        = st.ohlc],
         trades |-> st.trades,
         fills  |-> st.fills,
         spent  |-> SelectSeq(st.buy_orders \o st.sell_orders,
                              LAMBDA order : ~(get_quantity(order) > 0))]

\* ---- Stock::get_buy_orders / get_sell_orders
\* the loop that fills the HashMap pricelist, from the k-th order on
\* mutant: the quantity of the last order at a price replaces the level's
pricelist_overwrite(existing_price, quantity) == quantity

\* `pricelist.insert(price, existing_price + quantity)`
pricelist_sum(existing_price, quantity) == existing_price + quantity

RECURSIVE fill_pricelist(_, _, _)
fill_pricelist(orders, k, pricelist) ==
    IF k > Len(orders) THEN pricelist
    ELSE LET price    == get_unadjusted_price(orders[k])
             quantity == get_quantity(orders[k])
         IN  IF price \in DOMAIN pricelist
             THEN fill_pricelist(orders, k + 1,
                                 [pricelist EXCEPT
                                     ![price] = pricelist_sum(@, quantity)])
             ELSE IF Cardinality(DOMAIN pricelist) >= NO_OF_PRICES_QUERIED
                  THEN pricelist                                  \* break
                  ELSE fill_pricelist(orders, k + 1,
                                      pricelist @@ (price :> quantity))

EmptyMap == [k \in {} |-> 0]

\* `(*price as f64) / PRICE_PRECISION_FACTOR`
price_as_f64(price) == (price * RealScale) \div PRICE_PRECISION_FACTOR

\* the pricelist as a Vec<(f64, usize)> sorted by price; the keys of a map are
\* distinct, so the order of the result does not depend on the sort's stability
RECURSIVE sorted_pricelist(_, _, _)
sorted_pricelist(pricelist, keys, descending) ==
    IF keys = {} THEN <<>>
    ELSE LET first == CHOOSE k \in keys :
                          \A k2 \in keys :
                              IF descending
                              THEN price_as_f64(k) >= price_as_f64(k2)
                              ELSE price_as_f64(k) <= price_as_f64(k2)
         IN  <<<<price_as_f64(first), pricelist[first]>>>>
             \o sorted_pricelist(pricelist, keys \ {first}, descending)

\* mutant: the levels in ascending order of price
get_buy_orders_ascending(stock) ==
    LET pricelist == fill_pricelist(stock.buy_orders, 1, EmptyMap)
    IN  sorted_pricelist(pricelist, DOMAIN pricelist, FALSE)

get_buy_orders(stock) ==
    LET pricelist == fill_pricelist(stock.buy_orders, 1, EmptyMap)
    IN  sorted_pricelist(pricelist, DOMAIN pricelist, TRUE)

get_sell_orders(stock) ==
    LET pricelist == fill_pricelist(stock.sell_orders, 1, EmptyMap)
    IN  sorted_pricelist(pricelist, DOMAIN pricelist, FALSE)

\* ------------------------------------------------------------ Market
\* HashMap::insert
MapInsert(map, key, value) ==
    [k \in DOMAIN map \cup {key} |-> IF k = key THEN value ELSE map[k]]

\* the key under which Market stores a stock
stock_key(stock) == get_name(stock)

MarketNew == EmptyMap

add_stock(stocks, stock) == MapInsert(stocks, stock_key(stock), stock)

RECURSIVE extend_stocks(_, _)
extend_stocks(stocks, new_stocks) ==
    IF new_stocks = <<>> THEN stocks
    ELSE extend_stocks(MapInsert(stocks, stock_key(Head(new_stocks)),
                                 Head(new_stocks)),
                       Tail(new_stocks))

\* HashMap::get: Some(stock) or None
get_stock(stocks, symbol) ==
    IF symbol \in DOMAIN stocks THEN Some(stocks[symbol]) ELSE None

\* mutant: get_stock_mut finds no book
get_stock_mut_none(stocks, symbol) == None

get_stock_mut(stocks, symbol) ==
    IF symbol \in DOMAIN stocks THEN Some(stocks[symbol]) ELSE None

\* main: the stocks the market starts with
initial_stocks == <<StockNew("V", "Vulyenne")>>

InitialMarket == extend_stocks(MarketNew, initial_stocks)

\* ------------------------------------------------------------ SpecBook
\* The public operations of one Stock, called in any order on the book of the
\* initial market: add_buy_order, add_sell_order and resolve.  The orders are
\* built by Order::new from any price, quantity and creation time; an order
\* may be added after an order that was created later.
\* prices 0.01 and 0.02, and 0.025, which Order::new truncates to 0.02
BookPrices == {10, 20, 25}

\* Query::from_json takes any u64 as a quantity, 0 included
BookQuantities == {0, 1, 2}

\* creation times: earlier, equal and later all occur
BookTimes == {0, 1}

\* the creator does not take part in matching: one creator per add call
BookCreator(n) == (n % 2) + 1

\* the state main and serve start in; ids are the connection ids the sessions
\* of a specification take and cap the capacities of the channels
StartWith(ids, cap) ==
    /\ market = InitialMarket
    /\ trades = <<>>
    /\ reply = <<>>
    /\ last_op = "new"
    /\ nextSeq = 0
    /\ fills = <<>>
    /\ spent = <<>>
    /\ priceLog = <<>>
    /\ connections = EmptyMap
    /\ market_rx = <<>>
    /\ socket_rx = [id \in ids |-> <<>>]
    /\ engine_pc = "tick"
    /\ outbox = <<>>
    /\ current = <<>>
    /\ tick = 0
    /\ next_id = 1
    /\ session = [id \in ids |-> "none"]
    /\ nextReq = 0
    /\ pushed = <<>>
    /\ stream = [id \in ids |-> [req |-> 0, text |-> <<>>]]
    /\ history = <<>>
    /\ serve_pc = "accept"
    /\ capacity = cap
    /\ pending = [id \in ids |-> <<>>]
    /\ now = 0

\* `mpsc::channel::<(usize, Query)>(32)` and `mpsc::channel::<QueryResponse>(32)`
Start(ids) ==
    StartWith(ids, [inbound |-> INBOUND_CAPACITY, outbound |-> OUTBOUND_CAPACITY])

BookInit == Start(1..MaxConn)

RECURSIVE TradePrices(_)
TradePrices(ts) ==
    IF ts = <<>> THEN <<>> ELSE <<Head(ts).price>> \o TradePrices(Tail(ts))

BookAddBuy ==
    \E key \in DOMAIN market, price \in BookPrices,
       quantity \in BookQuantities, time \in BookTimes :
        /\ nextSeq < MaxOrders
        /\ LET order == OrderNew(BookCreator(nextSeq), price, quantity, time)
           IN  market' = [market EXCEPT
                   ![key] = add_buy_order(@, Tagged(order, nextSeq + 1))]
        /\ nextSeq' = nextSeq + 1
        /\ last_op' = "add_buy"
        /\ trades' = <<>> /\ fills' = <<>> /\ spent' = <<>>
        /\ UNCHANGED <<reply, priceLog, engineVars>>

BookAddSell ==
    \E key \in DOMAIN market, price \in BookPrices,
       quantity \in BookQuantities, time \in BookTimes :
        /\ nextSeq < MaxOrders
        /\ LET order == OrderNew(BookCreator(nextSeq), price, quantity, time)
           IN  market' = [market EXCEPT
                   ![key] = add_sell_order(@, Tagged(order, nextSeq + 1))]
        /\ nextSeq' = nextSeq + 1
        /\ last_op' = "add_sell"
        /\ trades' = <<>> /\ fills' = <<>> /\ spent' = <<>>
        /\ UNCHANGED <<reply, priceLog, engineVars>>

BookResolve ==
    \E key \in DOMAIN market :
        LET r == stock_resolve(market[key])
        IN  /\ market' = [market EXCEPT ![key] = r.stock]
            /\ trades' = r.trades
            /\ fills' = r.fills
            /\ spent' = r.spent
            /\ priceLog' = priceLog \o TradePrices(r.trades)
            /\ last_op' = "resolve"
            /\ UNCHANGED <<reply, nextSeq, engineVars>>

BookNext == BookAddBuy \/ BookAddSell \/ BookResolve

SpecBook == BookInit /\ [][BookNext]_vars

\* ------------------------------------------------------------ SpecOhlc
\* Ohlc::update called on the OHLC of the initial stock with any sequence of
\* trade prices, as tests::test_ohlc_update does.
OhlcPrices == {(k * RealScale) \div PRICE_PRECISION_FACTOR : k \in 1..OhlcMaxPrice}

OhlcTrade ==
    \E key \in DOMAIN market, latest_price \in OhlcPrices :
        /\ Len(priceLog) < MaxTrades
        /\ market' = [market EXCEPT ![key].ohlc = OhlcUpdate(@, latest_price)]
        /\ priceLog' = Append(priceLog, latest_price)
        /\ last_op' = "ohlc_update"
        /\ UNCHANGED <<trades, reply, nextSeq, fills, spent, engineVars>>

OhlcNext == OhlcTrade

SpecOhlc == BookInit /\ [][OhlcNext]_vars

\* ------------------------------------------------------------ SpecDepth
\* Orders added to one side of the book of the initial market, and the depth
\* of that side queried.  Neither query reads the other queue, so a behaviour
\* fills one queue only.  The ghost number of an order is not used here.
DepthPrices == {(k * RealScale) \div PRICE_PRECISION_FACTOR : k \in 1..DepthMaxPrice}

\* the first order at a price has quantity 1, a further one 1 or 2: the sum
\* of the quantities at a price differs from the count of its orders
DepthQuantities(orders, price) ==
    IF \E i \in 1..Len(orders) : get_price(orders[i]) = price
    THEN {1, 2} ELSE {1}

DepthAddBuy ==
    \E key \in DOMAIN market, price \in DepthPrices :
      \E quantity \in DepthQuantities(market[key].buy_orders, price) :
        /\ nextSeq < DepthMaxOrders
        /\ market[key].sell_orders = <<>>
        /\ market' = [market EXCEPT
               ![key] = add_buy_order(@, Tagged(OrderNew(1, price, quantity, 0), 0))]
        /\ nextSeq' = nextSeq + 1
        /\ last_op' = "add_buy"
        /\ reply' = <<>>
        /\ UNCHANGED <<trades, fills, spent, priceLog, engineVars>>

DepthAddSell ==
    \E key \in DOMAIN market, price \in DepthPrices :
      \E quantity \in DepthQuantities(market[key].sell_orders, price) :
        /\ nextSeq < DepthMaxOrders
        /\ market[key].buy_orders = <<>>
        /\ market' = [market EXCEPT
               ![key] = add_sell_order(@, Tagged(OrderNew(1, price, quantity, 0), 0))]
        /\ nextSeq' = nextSeq + 1
        /\ last_op' = "add_sell"
        /\ reply' = <<>>
        /\ UNCHANGED <<trades, fills, spent, priceLog, engineVars>>

DepthQueryBuy ==
    \E key \in DOMAIN market :
        /\ reply' = get_buy_orders(market[key])
        /\ last_op' = "get_buy_orders"
        /\ UNCHANGED <<market, trades, nextSeq, fills, spent, priceLog, engineVars>>

DepthQuerySell ==
    \E key \in DOMAIN market :
        /\ reply' = get_sell_orders(market[key])
        /\ last_op' = "get_sell_orders"
        /\ UNCHANGED <<market, trades, nextSeq, fills, spent, priceLog, engineVars>>

DepthNext == DepthAddBuy \/ DepthAddSell \/ DepthQueryBuy \/ DepthQuerySell

SpecDepth == BookInit /\ [][DepthNext]_vars

\* ------------------------------------------------------------ Query, QueryResponse
QueryBuy(symbol, order) ==
    [type |-> "Buy", symbol |-> symbol, order |-> Some(order), sink |-> None]

QuerySell(symbol, order) ==
    [type |-> "Sell", symbol |-> symbol, order |-> Some(order), sink |-> None]

QueryOhlc(symbol) ==
    [type |-> "Ohlc", symbol |-> symbol, order |-> None, sink |-> None]

QueryBuyOrders(symbol) ==
    [type |-> "BuyOrders", symbol |-> symbol, order |-> None, sink |-> None]

QuerySellOrders(symbol) ==
    [type |-> "SellOrders", symbol |-> symbol, order |-> None, sink |-> None]

\* the Sender of a connection's outbound channel is named by the conn id
QueryConnect(socket_tx) ==
    [type |-> "Connect", symbol |-> "", order |-> None, sink |-> Some(socket_tx)]

\* A request is the JSON value a client wrote: each of type, symbol, price
\* and quantity is Some(value) when the key holds a value of the type
\* from_json asks for (as_str, as_f64, as_u64) and None otherwise.  time is
\* what Utc::now() returns inside Order::new.
from_json(json, id, time) ==
    IF json.type = None THEN None
    ELSE LET query_type == json.type[1]
             symbol     == json.symbol
             price      == json.price
             quantity   == json.quantity
         IN  CASE query_type = "buy" ->
                    IF symbol = None \/ price = None \/ quantity = None THEN None
                    ELSE Some(QueryBuy(symbol[1],
                                       OrderNew(id, price[1], quantity[1], time)))
               [] query_type = "sell" ->
                    IF symbol = None \/ price = None \/ quantity = None THEN None
                    ELSE Some(QuerySell(symbol[1],
                                        OrderNew(id, price[1], quantity[1], time)))
               [] query_type = "ohlc" ->
                    IF symbol = None THEN None ELSE Some(QueryOhlc(symbol[1]))
               [] query_type = "buy_orders" ->
                    IF symbol = None THEN None ELSE Some(QueryBuyOrders(symbol[1]))
               [] query_type = "sell_orders" ->
                    IF symbol = None THEN None ELSE Some(QuerySellOrders(symbol[1]))
               [] OTHER -> None

\* mutant: the reply to Connect is the reply to an order
connected_as_posted == [response |-> "OrderPosted", body |-> <<>>]

Connected == [response |-> "Connected", body |-> <<>>]

OrderPosted == [response |-> "OrderPosted", body |-> <<>>]

QueriedOrders(orders) == [response |-> "QueriedOrders", body |-> orders]

OhlcResponse(ohlc) == [response |-> "Ohlc", body |-> ohlc]

ExecutedTrade(trade) == [response |-> "ExecutedTrade", body |-> trade]

SymbolNotFound == [response |-> "SymbolNotFound", body |-> <<>>]

\* `{:.2}` of an f64: two decimals, in hundredths
format_2(price) == (price * PRICE_PRECISION_FACTOR + RealScale \div 2) \div RealScale

RECURSIVE format_orders(_)
format_orders(orders) ==
    IF orders = <<>> THEN <<>>
    ELSE <<<<format_2(Head(orders)[1]), Head(orders)[2]>>>> \o format_orders(Tail(orders))

\* QueryResponse::to_json: the text is the value of "response" followed by
\* the values of the other keys, in the order they are written
to_json(response) ==
    CASE response.response = "Connected" -> <<"connected">>
      [] response.response = "OrderPosted" -> <<"order_posted">>
      [] response.response = "QueriedOrders" ->
             <<"queried_orders", format_orders(response.body)>>
      [] response.response = "Ohlc" ->
             <<"ohlc", response.body[1], response.body[2],
               response.body[3], response.body[4]>>
      [] response.response = "ExecutedTrade" ->
             <<"executed_trade", response.body.buyer_id, response.body.seller_id,
               format_2(response.body.price), response.body.quantity>>
      [] response.response = "SymbolNotFound" -> <<"symbol_not_found">>

\* the text connection_handler writes for a request from_json rejects
malformed_request == <<"malformed request">>

\* ------------------------------------------------------------ Market::resolve
\* Market::resolve visits the stocks in the order of HashMap::values_mut,
\* which is any order: `order` is a sequence of all the keys.
KeyOrders(stocks) ==
    LET n == Cardinality(DOMAIN stocks)
    IN  {f \in [1..n -> DOMAIN stocks] : \A i, j \in 1..n : i # j => f[i] # f[j]}

RECURSIVE market_resolve(_, _)
market_resolve(stocks, order) ==
    IF order = <<>>
    THEN [stocks |-> stocks, executed_trades |-> <<>>,
          trades |-> <<>>, fills |-> <<>>, spent |-> <<>>]
    ELSE LET r    == stock_resolve(stocks[Head(order)])
             rest == market_resolve([stocks EXCEPT ![Head(order)] = r.stock],
                                    Tail(order))
         IN  [stocks |-> rest.stocks,
              executed_trades |->
                  <<<<get_name(r.stock), r.trades>>>> \o rest.executed_trades,
              trades |-> r.trades \o rest.trades,
              fills  |-> r.fills \o rest.fills,
              spent  |-> r.spent \o rest.spent]

\* ------------------------------------------------------------ main: trade dispatch
\* the sends of the dispatch loop for the trades of one resolve: for each
\* trade, to the buyer and then to the seller.  Ghost: trade is the index of
\* the trade in the Vec resolve returned (k for the first of ts), req is the
\* number of the request a send answers (0: none).
\* mutant: only the buyer of a trade is sent it
RECURSIVE trade_sends_buyer(_, _)
trade_sends_buyer(ts, k) ==
    IF ts = <<>> THEN <<>>
    ELSE <<[to |-> Head(ts).buyer_id, msg |-> ExecutedTrade(Head(ts)),
            trade |-> k, req |-> 0]>>
         \o trade_sends_buyer(Tail(ts), k + 1)

\* mutant: the seller of a trade is sent it before the buyer
RECURSIVE trade_sends_seller_first(_, _)
trade_sends_seller_first(ts, k) ==
    IF ts = <<>> THEN <<>>
    ELSE <<[to |-> Head(ts).seller_id, msg |-> ExecutedTrade(Head(ts)),
            trade |-> k, req |-> 0],
           [to |-> Head(ts).buyer_id, msg |-> ExecutedTrade(Head(ts)),
            trade |-> k, req |-> 0]>>
         \o trade_sends_seller_first(Tail(ts), k + 1)

RECURSIVE trade_sends(_, _)
trade_sends(ts, k) ==
    IF ts = <<>> THEN <<>>
    ELSE <<[to |-> Head(ts).buyer_id, msg |-> ExecutedTrade(Head(ts)),
            trade |-> k, req |-> 0],
           [to |-> Head(ts).seller_id, msg |-> ExecutedTrade(Head(ts)),
            trade |-> k, req |-> 0]>>
         \o trade_sends(Tail(ts), k + 1)

\* ------------------------------------------------------------ resolve_query
\* mutant: resolve_query sends nothing
answer_dropped(socket_tx, response) == None

\* `socket_tx.send(response)`: the send resolve_query makes last
answer(socket_tx, response) == Some([to |-> socket_tx, msg |-> response])

\* The result of resolve_query: the registry and the market after the call and
\* the send it makes (None on the unknown-id path).  seq and admitted are
\* ghost: the number of the order a Buy or Sell adds and the tick it is added in.
resolve_query(id, query, conns, stocks, seq, admitted) ==
    IF query.type = "Connect"
    THEN [connections |-> MapInsert(conns, id, query.sink[1]),
          stocks      |-> stocks,
          send        |-> answer(id, Connected),
          added       |-> 0]
    ELSE IF id \notin DOMAIN conns
    THEN [connections |-> conns, stocks |-> stocks, send |-> None, added |-> 0]
    ELSE
    LET socket_tx == id
        found     == get_stock(stocks, query.symbol)
        found_mut == get_stock_mut(stocks, query.symbol)
        key       == query.symbol
        posted    == AdmittedAt(Tagged(query.order[1], seq), admitted)
    IN  CASE query.type = "Buy" ->
               IF found_mut # None
               THEN [connections |-> conns,
                     stocks |-> [stocks EXCEPT ![key] =
                                    add_buy_order(@, posted)],
                     send |-> answer(socket_tx, OrderPosted), added |-> 1]
               ELSE [connections |-> conns, stocks |-> stocks,
                     send |-> answer(socket_tx, SymbolNotFound), added |-> 0]
          [] query.type = "Sell" ->
               IF found_mut # None
               THEN [connections |-> conns,
                     stocks |-> [stocks EXCEPT ![key] =
                                    add_sell_order(@, posted)],
                     send |-> answer(socket_tx, OrderPosted), added |-> 1]
               ELSE [connections |-> conns, stocks |-> stocks,
                     send |-> answer(socket_tx, SymbolNotFound), added |-> 0]
          [] query.type = "Ohlc" ->
               [connections |-> conns, stocks |-> stocks,
                send |-> IF found # None
                         THEN answer(socket_tx, OhlcResponse(get_ohlc(found[1])))
                         ELSE answer(socket_tx, SymbolNotFound),
                added |-> 0]
          [] query.type = "BuyOrders" ->
               [connections |-> conns, stocks |-> stocks,
                send |-> IF found # None
                         THEN answer(socket_tx,
                                     QueriedOrders(get_buy_orders(found[1])))
                         ELSE answer(socket_tx, SymbolNotFound),
                added |-> 0]
          [] query.type = "SellOrders" ->
               [connections |-> conns, stocks |-> stocks,
                send |-> IF found # None
                         THEN answer(socket_tx,
                                     QueriedOrders(get_sell_orders(found[1])))
                         ELSE answer(socket_tx, SymbolNotFound),
                added |-> 0]

\* ------------------------------------------------------------ SpecEngine
\* The market loop of main, serve's accept branch and the connection
\* handlers.  serve's ctrl_c branch is not taken in this specification: the
\* server keeps its Sender, so try_recv never returns Disconnected.
EngineSymbols == {"V", "Vulyenne"}

EnginePrices == {10}

EngineQuantities == {1}

\* the read-only requests the clients write; the depth queries are exercised
\* on the book itself in SpecDepth
EngineReadTypes == {"ohlc"}

EngineRequests ==
    {[type |-> Some(t), symbol |-> Some(sym), price |-> Some(p), quantity |-> Some(q)] :
        t \in {"buy", "sell"}, sym \in EngineSymbols,
        p \in EnginePrices, q \in EngineQuantities}
    \cup
    {[type |-> Some(t), symbol |-> Some(sym), price |-> None, quantity |-> None] :
        t \in EngineReadTypes, sym \in EngineSymbols}

\* the market loop goes on with `loop {` (a resolve) after a query
\* mutant: the market loop goes on with try_recv after a query, and resolves
\* once per tick
after_query_drain == "dispatch"

after_query == "resolve"

\* `tick_interval.tick().await`; the clock that stamps the orders is read in
\* units of the tick interval; limit bounds the number of ticks
Tick(limit) ==
    /\ engine_pc = "tick"
    /\ tick < limit
    /\ tick' = tick + 1
    /\ now' = now + 1
    /\ engine_pc' = "resolve"
    /\ UNCHANGED <<bookVars, connections, market_rx, socket_rx, outbox, current,
                   next_id, session, nextReq,
                   pushed, stream,
                   serve_pc, capacity, pending>>

EngineTick == Tick(MaxTicks)

\* `let executed_trades = market.resolve();`
EngineResolve ==
    /\ engine_pc = "resolve"
    /\ \E order \in KeyOrders(market) :
        LET r == market_resolve(market, order)
        IN  /\ market' = r.stocks
            /\ trades' = r.trades
            /\ fills' = r.fills
            /\ spent' = r.spent
            /\ priceLog' = priceLog \o TradePrices(r.trades)
            /\ outbox' = trade_sends(r.trades, 1)
    /\ engine_pc' = "dispatch"
    /\ last_op' = "resolve"
    /\ UNCHANGED <<reply, nextSeq, connections, market_rx, socket_rx, current,
                   tick, next_id, session, nextReq, now,
                   pushed, stream,
                   serve_pc, capacity, pending>>

\* mutant: a send that fails ends the dispatch
after_failed_send_break(out) == <<>>

\* `if let Err(e) = ..send(..).await { market_speak(..) }` and the else
\* branches that log "not connected": the engine goes on with its next send
after_failed_send(out) == Tail(out)

\* One `send(..).await` of the engine: of a trade to its buyer or seller, or
\* of the reply to a query.  A send to an id that is not registered is
\* skipped; a send to a channel whose Receiver is dropped fails and is
\* logged; a send to a full channel waits (the action is not enabled).
EngineSend ==
    /\ engine_pc \in {"dispatch", "reply"}
    /\ outbox # <<>>
    /\ LET m == Head(outbox)
           sent(delivered) ==
               pushed' = IF m.trade = 0 THEN pushed
                         ELSE Append(pushed, [trade |-> m.trade, to |-> m.to,
                                              msg |-> m.msg, tick |-> tick,
                                              delivered |-> delivered])
           skipped ==
               /\ UNCHANGED socket_rx
               /\ sent(FALSE)
               /\ outbox' = after_failed_send(outbox)
       IN  IF m.to \notin DOMAIN connections
           THEN skipped
           ELSE LET socket_tx == connections[m.to]
                IN  IF session[socket_tx] = "closed"
                    THEN skipped
                    ELSE /\ Len(socket_rx[socket_tx]) < capacity.outbound
                         /\ socket_rx' = [socket_rx EXCEPT ![socket_tx] =
                                Append(@, [msg |-> m.msg, req |-> m.req])]
                         /\ sent(TRUE)
                         /\ outbox' = Tail(outbox)
    /\ engine_pc' = IF engine_pc = "reply" THEN after_query ELSE engine_pc
    /\ current' = IF engine_pc = "reply" THEN <<>> ELSE current
    /\ UNCHANGED <<bookVars, connections, market_rx, tick, next_id, session, nextReq, now,
                   stream,
                   serve_pc, capacity, pending>>

\* `match market_rx.try_recv() { Ok((id, query)) => resolve_query(..).await`
EngineQuery ==
    /\ engine_pc = "dispatch"
    /\ outbox = <<>>
    /\ market_rx # <<>>
    /\ LET id    == Head(market_rx).id
           query == Head(market_rx).query
           r     == resolve_query(id, query, connections, market,
                                  nextSeq + 1, tick)
       IN  /\ connections' = r.connections
           /\ market' = r.stocks
           /\ nextSeq' = nextSeq + r.added
           /\ outbox' = IF r.send = None THEN <<>>
                         ELSE <<[to |-> r.send[1].to, msg |-> r.send[1].msg,
                                 trade |-> 0, req |-> Head(market_rx).req]>>
           /\ engine_pc' = IF r.send = None THEN after_query ELSE "reply"
           /\ current' = IF r.send = None THEN <<>> ELSE <<Head(market_rx)>>
           /\ last_op' = "query"
    /\ market_rx' = Tail(market_rx)
    /\ trades' = <<>> /\ fills' = <<>> /\ spent' = <<>>
    /\ pushed' = <<>>
    /\ UNCHANGED <<reply, priceLog, socket_rx, tick, next_id, session,
                   nextReq, now, stream,
                   serve_pc, capacity, pending>>

\* every Sender of the inbound channel is dropped: serve has returned and no
\* connection handler is running
Disconnected == serve_pc = "done" /\ \A id \in DOMAIN session : session[id] # "open"

\* `Err(TryRecvError::Empty) => break`
EngineIdle ==
    /\ engine_pc = "dispatch"
    /\ outbox = <<>>
    /\ market_rx = <<>>
    /\ ~Disconnected
    /\ engine_pc' = "tick"
    /\ trades' = <<>> /\ fills' = <<>> /\ spent' = <<>>
    /\ pushed' = <<>>
    /\ UNCHANGED <<market, reply, last_op, nextSeq, priceLog, connections,
                   market_rx, socket_rx, outbox, current, tick, next_id,
                   session, nextReq, now, stream,
                   serve_pc, capacity, pending>>

\* mutant: the handler is spawned without Connect having been sent
Accept_spawn_only(ids) ==
    /\ serve_pc = "accept"
    /\ next_id \in ids
    /\ session' = [session EXCEPT ![next_id] = "open"]
    /\ next_id' = next_id + 1
    /\ UNCHANGED <<bookVars, connections, market_rx, socket_rx, engine_pc, outbox,
                   current, tick, nextReq, now, pushed, stream, serve_pc,
                   capacity, pending>>

\* serve: a connection is accepted, Connect is sent into the inbound channel
\* (the send waits while the channel is full) and the handler is spawned.
\* ids are the ids of the connections the clients make.
Accept(ids) ==
    /\ serve_pc = "accept"
    /\ next_id \in ids
    /\ Len(market_rx) < capacity.inbound
    /\ market_rx' = Append(market_rx,
                           [id |-> next_id, query |-> QueryConnect(next_id),
                            req |-> 0])
    /\ session' = [session EXCEPT ![next_id] = "open"]
    /\ next_id' = next_id + 1
    /\ UNCHANGED <<bookVars, connections, socket_rx, engine_pc, outbox, current,
                   tick, nextReq, now,
                   pushed, stream,
                   serve_pc, capacity, pending>>

ServeAccept == Accept(1..MaxConn)

\* `String::from_utf8_lossy(&socket_buffer)` and `&message[0..n]`: the bytes
\* read are the first n of the buffer, and n is a char boundary of the lossy
\* text unless the bytes are not UTF-8 (each invalid sequence becomes the
\* three bytes of U+FFFD).  A request is the JSON value of its bytes, with
\* boundary = FALSE when it says that n is not a char boundary.
is_char_boundary(json) == "boundary" \notin DOMAIN json \/ json.boundary

\* connection_handler, the socket.read branch: a request is read and parsed
\* (an order is stamped with the clock) and the query is sent into the
\* inbound channel; the send waits while the channel is full.  A request
\* that does not parse is answered on the socket at once.  requests are the
\* requests the client may write and limit bounds their number; with wait
\* the read and the send into the inbound channel are one step.
Read(id, requests, limit, wait) ==
    /\ session[id] = "open"
    /\ pending[id] = <<>>
    /\ nextReq < limit
    /\ \E json \in requests :
        LET parsed == from_json(json, id, now)
        IN  IF ~is_char_boundary(json)
            THEN \* `&message[0..n]` panics: the task ends, the socket and
                 \* the Receiver are dropped
                 /\ session' = [session EXCEPT ![id] = "closed"]
                 /\ socket_rx' = [socket_rx EXCEPT ![id] = <<>>]
                 /\ UNCHANGED <<market_rx, stream, pending>>
            ELSE IF parsed = None
            THEN \* `socket.write(r#"{"response": "malformed request"}"#..)`
                 /\ stream' = [stream EXCEPT ![id] =
                                   [req |-> nextReq + 1, text |-> malformed_request]]
                 /\ UNCHANGED <<market_rx, session, socket_rx, pending>>
            ELSE IF wait
            THEN \* `tx.send((id, query)).await`, returning when it is sent
                 /\ Len(market_rx) < capacity.inbound
                 /\ market_rx' = Append(market_rx,
                                        [id |-> id, query |-> parsed[1],
                                         req |-> nextReq + 1])
                 /\ UNCHANGED <<stream, session, socket_rx, pending>>
            ELSE \* `tx.send((id, query))`, awaited in Forward
                 /\ pending' = [pending EXCEPT ![id] =
                                    <<[id |-> id, query |-> parsed[1],
                                       req |-> nextReq + 1]>>]
                 /\ UNCHANGED <<stream, session, socket_rx, market_rx>>
    /\ nextReq' = nextReq + 1
    /\ UNCHANGED <<bookVars, connections, engine_pc, outbox, current,
                   tick, next_id, now, pushed, serve_pc, capacity>>
\* connection_handler, `tx.send((id, query)).await` completing: the handler
\* is in the body of its socket.read branch until the query is in the inbound
\* channel, and takes no other branch of its select meanwhile
Forward(id) ==
    /\ session[id] = "open"
    /\ pending[id] # <<>>
    /\ Len(market_rx) < capacity.inbound
    /\ market_rx' = Append(market_rx, pending[id][1])
    /\ pending' = [pending EXCEPT ![id] = <<>>]
    /\ UNCHANGED <<bookVars, connections, socket_rx, engine_pc, outbox, current,
                   tick, next_id, session, nextReq, now, pushed, stream,
                   serve_pc, capacity>>


SessionRead(id) == Read(id, EngineRequests, MaxRequests, TRUE)

\* connection_handler, the rx.recv branch: a response is taken from the
\* outbound channel and written to the socket
SessionWrite(id) ==
    /\ session[id] = "open"
    /\ pending[id] = <<>>
    /\ socket_rx[id] # <<>>
    /\ socket_rx' = [socket_rx EXCEPT ![id] = Tail(@)]
    /\ stream' = IF Head(socket_rx[id]).req = 0 THEN stream
                  ELSE [stream EXCEPT ![id] =
                            [req  |-> Head(socket_rx[id]).req,
                             text |-> to_json(Head(socket_rx[id]).msg)]]
    /\ UNCHANGED <<bookVars, connections, market_rx, engine_pc, outbox, current,
                   tick, next_id, session, nextReq, now,
                   pushed,
                   serve_pc, capacity, pending>>

\* connection_handler: socket.read returns Ok(0), the handler returns and
\* drops the Receiver of its outbound channel with what is queued in it
SessionClose(id) ==
    /\ session[id] = "open"
    /\ pending[id] = <<>>
    /\ session' = [session EXCEPT ![id] = "closed"]
    /\ socket_rx' = [socket_rx EXCEPT ![id] = <<>>]
    /\ UNCHANGED <<bookVars, connections, market_rx, engine_pc, outbox, current,
                   tick, next_id, nextReq, now,
                   pushed, stream,
                   serve_pc, capacity, pending>>

\* history is not kept in SpecEngine
EngineNext ==
    \/ EngineTick /\ UNCHANGED history
    \/ EngineResolve /\ UNCHANGED history
    \/ EngineSend /\ UNCHANGED history
    \/ EngineQuery /\ UNCHANGED history
    \/ EngineIdle /\ UNCHANGED history
    \/ ServeAccept /\ UNCHANGED history
    \/ \E id \in 1..MaxConn : SessionRead(id) /\ UNCHANGED history
    \/ \E id \in 1..MaxConn : SessionWrite(id) /\ UNCHANGED history
    \/ \E id \in 1..MaxConn : SessionClose(id) /\ UNCHANGED history

SpecEngine == BookInit /\ [][EngineNext]_vars


\* ------------------------------------------------------------ properties of a book
SeqToSet(s) == {s[i] : i \in 1..Len(s)}

QueuedOrders == 
    UNION {SeqToSet(market[key].buy_orders) \cup SeqToSet(market[key].sell_orders)
           : key \in DOMAIN market}

\* the later of the ticks in which the two orders of the k-th trade were
\* admitted
LaterAdmitted(k) ==
    IF fills[k].buy.admitted >= fills[k].sell.admitted
    THEN fills[k].buy.admitted ELSE fills[k].sell.admitted

RegisteredBooks == {market[key] : key \in DOMAIN market}

\* C3: for every registered book with symbol s, get_stock(s) and
\* get_stock_mut(s) return that book, and they return None exactly when no
\* registered book has symbol s; so the reply to a Buy, Sell, Ohlc, BuyOrders
\* or SellOrders query that names the symbol of a registered book is never
\* SymbolNotFound.
C3_LookupBySymbol ==
    /\ \A book \in RegisteredBooks :
        /\ get_stock(market, get_symbol(book)) = Some(book)
        /\ get_stock_mut(market, get_symbol(book)) = Some(book)
    /\ \A symbol \in EngineSymbols :
        /\ get_stock(market, symbol) = None
            <=> ~ \E book \in RegisteredBooks : get_symbol(book) = symbol
        /\ get_stock_mut(market, symbol) = None
            <=> ~ \E book \in RegisteredBooks : get_symbol(book) = symbol
    /\ (/\ engine_pc = "reply"
        /\ current # <<>>
        /\ \E book \in RegisteredBooks :
              get_symbol(book) = current[1].query.symbol)
       => Head(outbox).msg # SymbolNotFound

\* C3: a query that names the symbol of the initial stock is answered
\* SymbolNotFound
C3_SymbolNotFoundForRegistered ==
    /\ engine_pc = "reply"
    /\ current # <<>>
    /\ current[1].query.symbol = "V"
    /\ Head(outbox).msg = SymbolNotFound

\* C2: the price of every trade is the sell order's price when the sell order
\* was created strictly before the buy order, and the buy order's price
\* otherwise (equal creation times included); never any other value.
C2_ExecutionPrice ==
    \A k \in 1..Len(trades) :
        LET b == fills[k].buy
            s == fills[k].sell
        IN  trades[k].price * PRICE_PRECISION_FACTOR =
                (IF s.time < b.time THEN s.price ELSE b.price) * RealScale

\* One resolve returned a trade at the seller's price (seller created first)
\* and a trade at the buyer's price (equal creation times), the two limit
\* prices being different in both.
C2_Witness ==
    /\ last_op = "resolve"
    /\ \E k1, k2 \in 1..Len(trades) :
        /\ fills[k1].sell.time < fills[k1].buy.time
        /\ fills[k1].sell.price # fills[k1].buy.price
        /\ trades[k1].price * PRICE_PRECISION_FACTOR = fills[k1].sell.price * RealScale
        /\ fills[k2].sell.time = fills[k2].buy.time
        /\ fills[k2].sell.price # fills[k2].buy.price
        /\ trades[k2].price * PRICE_PRECISION_FACTOR = fills[k2].buy.price * RealScale

\* C4: for every trade, buy limit >= execution price >= sell limit, compared
\* on the fixed-point grid.
C4_Feasibility ==
    \A k \in 1..Len(trades) :
        /\ fills[k].buy.price * RealScale >= trades[k].price * PRICE_PRECISION_FACTOR
        /\ trades[k].price * PRICE_PRECISION_FACTOR >= fills[k].sell.price * RealScale

\* A resolve returned a trade strictly below the buy limit and a trade
\* strictly above the sell limit.
C4_Witness ==
    /\ last_op = "resolve"
    /\ \E k \in 1..Len(trades) :
        fills[k].buy.price * RealScale > trades[k].price * PRICE_PRECISION_FACTOR
    /\ \E k \in 1..Len(trades) :
        trades[k].price * PRICE_PRECISION_FACTOR > fills[k].sell.price * RealScale

\* ghost: the quantity order o traded in the trades of the last resolve
RECURSIVE TradedIn(_, _)
TradedIn(o, k) ==
    IF k = 0 THEN 0
    ELSE TradedIn(o, k - 1)
         + (IF fills[k].buy.seq = o.seq \/ fills[k].sell.seq = o.seq
            THEN trades[k].quantity ELSE 0)

\* ghost: what order o had traded when the last resolve began
TradedBefore(o) ==
    LET ks == {k \in 1..Len(fills) :
                   fills[k].buy.seq = o.seq \/ fills[k].sell.seq = o.seq}
        first == CHOOSE k \in ks : \A k2 \in ks : k <= k2
    IN  IF ks = {} THEN o.traded
        ELSE IF fills[first].buy.seq = o.seq THEN fills[first].buy.traded
        ELSE fills[first].sell.traded

\* C5: a trade's quantity is the smaller of the two residuals when it fires;
\* residuals never go below 0 and prices never change; for every order, in a
\* queue or dropped by the last resolve, the original quantity is the
\* residual plus the quantities of the trades it took part in.
C5_Conservation ==
    /\ \A k \in 1..Len(trades) :
        /\ trades[k].quantity <= fills[k].buy.quantity
        /\ trades[k].quantity <= fills[k].sell.quantity
        /\ \/ trades[k].quantity = fills[k].buy.quantity
           \/ trades[k].quantity = fills[k].sell.quantity
        /\ fills[k].buy.original = fills[k].buy.quantity + fills[k].buy.traded
        /\ fills[k].sell.original = fills[k].sell.quantity + fills[k].sell.traded
    /\ \A o \in QueuedOrders \cup SeqToSet(spent) :
        /\ o.quantity >= 0
        /\ o.price = o.limit
        /\ o.traded = TradedBefore(o) + TradedIn(o, Len(trades))
        /\ o.original = o.quantity + o.traded

\* After a resolve, an order that was partly filled by two trades of this
\* resolve rests in a queue with a residual.
C5_Witness ==
    /\ last_op = "resolve"
    /\ \E o \in QueuedOrders :
        /\ o.quantity > 0
        /\ o.traded > 0
        /\ \E k \in 1..Len(trades) : fills[k].sell.seq = o.seq
    /\ \E o \in SeqToSet(spent) :
        Cardinality({k \in 1..Len(trades) : fills[k].buy.seq = o.seq}) = 2

\* C6: when a trade fires, no order that is served before one of its two
\* orders (a better price, or the same price and added earlier) has any
\* residual left: better prices are filled first, and at one price the order
\* added earlier.
C6_PriceTimePriority ==
    \A k \in 1..Len(trades) :
        /\ fills[k].buy_ahead = 0
        /\ fills[k].sell_ahead = 0

\* Two sell orders at one price and a buy order that takes the first whole
\* and the second in part: the trades come in the order the sells were added
\* and the second sell keeps a residual of 1.
C6_Witness ==
    /\ last_op = "resolve"
    /\ Len(trades) = 2
    /\ fills[1].buy.seq = fills[2].buy.seq
    /\ fills[1].sell.price = fills[2].sell.price
    /\ fills[1].sell.seq < fills[2].sell.seq
    /\ \E o \in QueuedOrders : o.seq = fills[2].sell.seq /\ o.quantity = 1

\* C7: in every state (so after every add_buy, add_sell and resolve) the buy
\* queue is in non-increasing and the sell queue in non-decreasing price
\* order, and orders of one price are in the order they were added.
C7_Sorted ==
    \A key \in DOMAIN market :
        LET b == market[key].buy_orders
            s == market[key].sell_orders
        IN  /\ \A i, j \in 1..Len(b) :
                 i < j => \/ b[i].price > b[j].price
                          \/ b[i].price = b[j].price /\ b[i].seq < b[j].seq
            /\ \A i, j \in 1..Len(s) :
                 i < j => \/ s[i].price < s[j].price
                          \/ s[i].price = s[j].price /\ s[i].seq < s[j].seq

\* A buy order was just added in front of two older buy orders of one lower
\* price.
C7_Witness ==
    /\ last_op = "add_buy"
    /\ \E key \in DOMAIN market :
        LET b == market[key].buy_orders
        IN  /\ Len(b) = 3
            /\ b[1].seq > b[3].seq
            /\ b[1].price > b[2].price
            /\ b[2].price = b[3].price

\* C8: after every add_buy, add_sell and resolve, no queue holds an order of
\* quantity 0.
C8_NoSpentOrders ==
    \A o \in QueuedOrders : o.quantity # 0

\* C9: the four fields are unset until the first trade and set from it on;
\* then open is the price of the first trade, high the largest and low the
\* smallest price of all trades, and close the price of the last trade.
C9_Ohlc ==
    \A key \in DOMAIN market :
        LET ohlc == market[key].ohlc
            n == Len(priceLog)
        IN  IF n = 0
            THEN ohlc.open = <<>> /\ ohlc.high = <<>>
                 /\ ohlc.low = <<>> /\ ohlc.close = <<>>
            ELSE /\ ohlc.open = <<priceLog[1]>>
                 /\ ohlc.close = <<priceLog[n]>>
                 /\ Len(ohlc.high) = 1 /\ Len(ohlc.low) = 1
                 /\ \E i \in 1..n : priceLog[i] = ohlc.high[1]
                 /\ \E i \in 1..n : priceLog[i] = ohlc.low[1]
                 /\ \A i \in 1..n : priceLog[i] <= ohlc.high[1]
                 /\ \A i \in 1..n : priceLog[i] >= ohlc.low[1]

\* Four trades after which open, high, low and close are four different
\* prices, as in tests::test_ohlc_update.
C9_Witness ==
    /\ Len(priceLog) = 4
    /\ \E key \in DOMAIN market :
        LET ohlc == market[key].ohlc
        IN  /\ ohlc.open = <<priceLog[1]>>
            /\ ohlc.high = <<priceLog[2]>>
            /\ ohlc.low = <<priceLog[3]>>
            /\ ohlc.close = <<priceLog[4]>>
            /\ ohlc.low[1] < ohlc.close[1]
            /\ ohlc.close[1] < ohlc.open[1]
            /\ ohlc.open[1] < ohlc.high[1]

\* the prices of a queue, and the residual quantity of all its orders at a price
LevelPrices(orders) == {orders[i].price : i \in 1..Len(orders)}

RECURSIVE LevelQuantity(_, _, _)
LevelQuantity(orders, price, k) ==
    IF k = 0 THEN 0
    ELSE LevelQuantity(orders, price, k - 1)
         + (IF orders[k].price = price THEN orders[k].quantity ELSE 0)

\* r is the depth of the queue: one entry for each of the (at most
\* NO_OF_PRICES_QUERIED) best prices, best first, with the whole quantity at it
IsDepthOf(r, orders, descending) ==
    LET prices == LevelPrices(orders)
        Better(p, q) == IF descending THEN p > q ELSE p < q
        Rank(p) == Cardinality({q \in prices : Better(q, p)}) + 1
    IN  /\ Len(r) = IF Cardinality(prices) < NO_OF_PRICES_QUERIED
                    THEN Cardinality(prices) ELSE NO_OF_PRICES_QUERIED
        /\ \A p \in prices :
            Rank(p) <= NO_OF_PRICES_QUERIED =>
                /\ r[Rank(p)][1] * PRICE_PRECISION_FACTOR = p * RealScale
                /\ r[Rank(p)][2] = LevelQuantity(orders, p, Len(orders))

\* C10: a depth query returns the min(5, number of distinct prices) best
\* price levels of its queue, best first (buys descending, sells ascending),
\* each with the sum of the residual quantities of all orders at that price.
C10_Depth ==
    \A key \in DOMAIN market :
        /\ last_op = "get_buy_orders" =>
               IsDepthOf(reply, market[key].buy_orders, TRUE)
        /\ last_op = "get_sell_orders" =>
               IsDepthOf(reply, market[key].sell_orders, FALSE)

\* A buy queue with six prices, two orders at the fifth best: the query
\* returns five levels and the fifth holds both orders.
C10_Witness ==
    /\ last_op = "get_buy_orders"
    /\ Len(reply) = NO_OF_PRICES_QUERIED
    /\ \E key \in DOMAIN market :
        LET b == market[key].buy_orders
        IN  /\ Cardinality(LevelPrices(b)) > NO_OF_PRICES_QUERIED
            /\ Len(b) = 7
            /\ b[5].price = b[6].price
            /\ b[5].quantity # b[6].quantity
            /\ reply[5][2] = 3

\* the quantity a depth reply reports for the level at a price (0 when the
\* reply has no such level); price is an order's stored price
ReportedAt(r, price) ==
    IF \E i \in 1..Len(r) : r[i][1] * PRICE_PRECISION_FACTOR = price * RealScale
    THEN LET i == CHOOSE i \in 1..Len(r) :
                      r[i][1] * PRICE_PRECISION_FACTOR = price * RealScale
         IN  r[i][2]
    ELSE 0

\* the number of price levels of a queue that a depth query reports before
\* the level at price: the levels with a strictly better price
LevelsAhead(orders, price, descending) ==
    Cardinality({q \in LevelPrices(orders) :
                    IF descending THEN q > price ELSE q < price})

\* the order by which the queue new is longer than the queue old: the order
\* at the first index where the two differ
AddedOrder(old, new) ==
    new[CHOOSE i \in 1..Len(new) :
            /\ i > Len(old) \/ new[i] # old[i]
            /\ \A j \in 1..(i - 1) : new[j] = old[j]]

\* this step is add_buy_order (add_sell_order) of order o on book key
IsAddBuy(key, o) ==
    /\ last_op' = "add_buy"
    /\ market' = [market EXCEPT ![key] = add_buy_order(@, o)]

IsAddSell(key, o) ==
    /\ last_op' = "add_sell"
    /\ market' = [market EXCEPT ![key] = add_sell_order(@, o)]

\* C11, as stated: for any book and any order o, the depth of o's side queried
\* right after o is added reports, for the level at o's price, exactly
\* o.quantity more than the depth queried right before the add (0 for an
\* absent level).
C11_DepthRoundTrip ==
    [][\A key \in DOMAIN market :
        /\ last_op' = "add_buy" =>
              LET o == AddedOrder(market[key].buy_orders, market'[key].buy_orders)
              IN  IsAddBuy(key, o) =>
                    ReportedAt(get_buy_orders(market'[key]), o.price)
                      = ReportedAt(get_buy_orders(market[key]), o.price)
                        + o.quantity
        /\ last_op' = "add_sell" =>
              LET o == AddedOrder(market[key].sell_orders, market'[key].sell_orders)
              IN  IsAddSell(key, o) =>
                    ReportedAt(get_sell_orders(market'[key]), o.price)
                      = ReportedAt(get_sell_orders(market[key]), o.price)
                        + o.quantity
      ]_vars

\* what C11 holds to after the add of o, given the depth before (old) and
\* after (new) and the number of levels ahead of o's
RoundTrip(o, old, new, ahead) ==
    IF ahead < NO_OF_PRICES_QUERIED
    THEN ReportedAt(new, o.price) = ReportedAt(old, o.price) + o.quantity
    ELSE ReportedAt(new, o.price) = 0 /\ ReportedAt(old, o.price) = 0

\* C11, amended: the round trip holds for an order whose price is one of the
\* NO_OF_PRICES_QUERIED best prices of its side after the add; for an order
\* at a worse price the query reports no level at its price, before and
\* after the add.
C11_DepthRoundTripWithinCap ==
    [][\A key \in DOMAIN market :
        /\ last_op' = "add_buy" =>
              LET o == AddedOrder(market[key].buy_orders, market'[key].buy_orders)
              IN  /\ IsAddBuy(key, o)
                  /\ RoundTrip(o, get_buy_orders(market[key]),
                               get_buy_orders(market'[key]),
                               LevelsAhead(market'[key].buy_orders, o.price, TRUE))
        /\ last_op' = "add_sell" =>
              LET o == AddedOrder(market[key].sell_orders, market'[key].sell_orders)
              IN  /\ IsAddSell(key, o)
                  /\ RoundTrip(o, get_sell_orders(market[key]),
                               get_sell_orders(market'[key]),
                               LevelsAhead(market'[key].sell_orders, o.price, FALSE))
      ]_vars

\* a buy order has just been added to a level that already held an order, and
\* the depth of the buy side reports the sum for that level
C11_Witness ==
    /\ last_op = "add_buy"
    /\ \E key \in DOMAIN market :
        LET b == market[key].buy_orders
        IN  \E i, j \in 1..Len(b) :
              /\ i < j
              /\ b[i].price = b[j].price
              /\ LevelsAhead(b, b[i].price, TRUE) < NO_OF_PRICES_QUERIED
              /\ ReportedAt(get_buy_orders(market[key]), b[i].price)
                   = LevelQuantity(b, b[i].price, Len(b))
              /\ LevelQuantity(b, b[i].price, Len(b)) >= 2

\* C12: whenever a call to resolve emits no trade, the book (both queues and
\* the OHLC) is the same before and after the call.
C12_IdempotentResolve ==
    [][(last_op' = "resolve" /\ trades' = <<>>) => market' = market]_vars

\* ------------------------------------------------------------ SpecCross
\* tests::test_resolve_trade with its inputs drawn from sets: on the book of
\* the initial market a buy order of creator 1 is added, then a sell order of
\* creator 2 that was built no earlier, then resolve is called and the
\* depths are queried.
CrossPrices == {150000, 150500}

CrossQuantities == {5, 10}

CrossAddBuy ==
    \E key \in DOMAIN market, price \in CrossPrices,
       quantity \in CrossQuantities, time \in 0..CrossMaxTime :
        /\ nextSeq = 0
        /\ market' = [market EXCEPT ![key] =
               add_buy_order(@, Tagged(OrderNew(1, price, quantity, time), 1))]
        /\ nextSeq' = 1
        /\ now' = time
        /\ last_op' = "add_buy"
        /\ UNCHANGED <<trades, reply, fills, spent, priceLog, connections,
                       market_rx, socket_rx, engine_pc, outbox, current, tick,
                       next_id, session, nextReq,
                   pushed, stream, history,
                   serve_pc, capacity, pending>>

CrossAddSell ==
    \E key \in DOMAIN market, price \in CrossPrices,
       quantity \in CrossQuantities, time \in now..CrossMaxTime :
        /\ nextSeq = 1
        /\ market' = [market EXCEPT ![key] =
               add_sell_order(@, Tagged(OrderNew(2, price, quantity, time), 2))]
        /\ nextSeq' = 2
        /\ now' = time
        /\ last_op' = "add_sell"
        /\ UNCHANGED <<trades, reply, fills, spent, priceLog, connections,
                       market_rx, socket_rx, engine_pc, outbox, current, tick,
                       next_id, session, nextReq,
                   pushed, stream, history,
                   serve_pc, capacity, pending>>

CrossResolve ==
    \E key \in DOMAIN market :
        LET r == stock_resolve(market[key])
        IN  /\ nextSeq = 2
            /\ last_op = "add_sell"
            /\ market' = [market EXCEPT ![key] = r.stock]
            /\ trades' = r.trades
            /\ fills' = r.fills
            /\ spent' = r.spent
            /\ priceLog' = priceLog \o TradePrices(r.trades)
            /\ last_op' = "resolve"
            /\ UNCHANGED <<reply, nextSeq, engineVars>>

CrossResolved ==
    /\ nextSeq = 2
    /\ last_op \in {"resolve", "get_buy_orders", "get_sell_orders"}

CrossQueryBuy ==
    \E key \in DOMAIN market :
        /\ CrossResolved
        /\ reply' = get_buy_orders(market[key])
        /\ last_op' = "get_buy_orders"
        /\ UNCHANGED <<market, trades, nextSeq, fills, spent, priceLog, engineVars>>

CrossQuerySell ==
    \E key \in DOMAIN market :
        /\ CrossResolved
        /\ reply' = get_sell_orders(market[key])
        /\ last_op' = "get_sell_orders"
        /\ UNCHANGED <<market, trades, nextSeq, fills, spent, priceLog, engineVars>>

CrossNext ==
    \/ CrossAddBuy
    \/ CrossAddSell
    \/ CrossResolve
    \/ CrossQueryBuy
    \/ CrossQuerySell

SpecCross == BookInit /\ [][CrossNext]_vars

\* the orders added so far: those queued and those the last resolve dropped
AddedOrders == QueuedOrders \cup SeqToSet(spent)

\* the inputs of scenario S1: buy(id=1, 150.50, 10) was added first and
\* sell(id=2, 150.00, 5) second, and resolve has been called
S1_Inputs ==
    /\ CrossResolved
    /\ \E b, s \in AddedOrders :
        /\ b.seq = 1 /\ b.creator_id = 1 /\ b.limit = 15050 /\ b.original = 10
        /\ s.seq = 2 /\ s.creator_id = 2 /\ s.limit = 15000 /\ s.original = 5

\* what scenario S1 expects with the trade (and so the OHLC) at price
S1_Outcome(price) ==
    \A key \in DOMAIN market :
        /\ trades = <<TradeNew(1, 2, price, 5)>>
        /\ get_buy_orders(market[key]) = <<<<150500, 5>>>>
        /\ get_sell_orders(market[key]) = <<>>
        /\ get_ohlc(market[key]) = <<Some(price), Some(price), Some(price), Some(price)>>

\* C13, as stated: in scenario S1 resolve emits exactly one trade {buyer=1,
\* seller=2, price=150.00, qty=5}, the buy depth is [(150.50, 5)], the sell
\* depth is empty and the OHLC is (150.00, 150.00, 150.00, 150.00).
C13_ScenarioS1 == S1_Inputs => S1_Outcome(150000)

\* C13, amended: the buy order was submitted first, so the trade is at the
\* buyer's price: one trade {buyer=1, seller=2, price=150.50, qty=5}, buy
\* depth [(150.50, 5)], sell depth empty, OHLC (150.50, 150.50, 150.50, 150.50).
C13_ScenarioS1AtBuyPrice == S1_Inputs => S1_Outcome(150500)

\* scenario S1 has run, with the sell order built after the buy order
C13_Witness ==
    /\ S1_Inputs
    /\ last_op = "resolve"
    /\ Len(fills) = 1
    /\ fills[1].buy.time < fills[1].sell.time

\* ------------------------------------------------------------ SpecRoute
\* The same server with two sessions: the first client places buy orders, the
\* second places sell orders and may buy too (a connection can be both
\* sides of a trade).  history is kept: every order request the engine dequeues
\* and every send of a trade is recorded with the tick.
RouteIds == {1, 2}

RouteTypes(id) == IF id = 1 THEN {"buy"} ELSE {"sell", "buy"}

RouteSymbols(id, t) == IF id = 2 /\ t = "buy" THEN {"Vulyenne"} ELSE EngineSymbols

\* 10.00 in the units of f64 prices
RoutePrice == 10 * RealScale

RouteRequests(id) ==
    UNION {{[type |-> Some(t), symbol |-> Some(sym),
             price |-> Some(RoutePrice), quantity |-> Some(1)] :
                sym \in RouteSymbols(id, t)} : t \in RouteTypes(id)}

\* the scenario is watched for one tick more than MaxTicks
RouteTicks == MaxTicks + 1

Admitted(id, query, at) ==
    [event |-> "admitted", id |-> id, type |-> query.type,
     symbol |-> IF query.type = "Connect" THEN "" ELSE query.symbol, tick |-> at]

Pushed(id, delivered, at) ==
    [event |-> IF delivered THEN "pushed" ELSE "failed", id |-> id,
     type |-> "ExecutedTrade", symbol |-> "", tick |-> at]

RouteTick == Tick(RouteTicks) /\ UNCHANGED history

\* EngineSend, with the send of a trade recorded
RouteSend ==
    /\ EngineSend
    /\ history' = IF Head(outbox).trade = 0 THEN history
                   ELSE Append(history,
                               Pushed(Head(outbox).to,
                                      Len(pushed') > 0 /\ pushed'[Len(pushed')].delivered,
                                      tick))

\* EngineQuery, with the dequeued request recorded
RouteQuery ==
    /\ EngineQuery
    /\ history' = IF Head(market_rx).query.type = "Connect" THEN history
                   ELSE Append(history, Admitted(Head(market_rx).id,
                                           Head(market_rx).query, tick))

\* serve: the two connections are accepted
RouteAccept == Accept(RouteIds) /\ UNCHANGED history

RouteRead(id) == Read(id, RouteRequests(id), MaxRequests, TRUE) /\ UNCHANGED history

RouteNext ==
    \/ RouteTick
    \/ EngineResolve /\ UNCHANGED history
    \/ RouteSend
    \/ RouteQuery
    \/ EngineIdle /\ UNCHANGED history
    \/ RouteAccept
    \/ \E id \in RouteIds : RouteRead(id)
    \/ \E id \in RouteIds : SessionWrite(id) /\ UNCHANGED history
    \/ \E id \in RouteIds : SessionClose(id) /\ UNCHANGED history

RouteInit == Start(RouteIds)

SpecRoute == RouteInit /\ [][RouteNext]_vars

\* ------------------------------------------------------------ SpecSession
\* The server with clients that write requests from_json accepts and
\* requests it does not.
SessionRequests ==
    {[type |-> Some("ohlc"), symbol |-> Some("Vulyenne"),
      price |-> None, quantity |-> None],
     \* not JSON, or JSON without a string under "type"
     [type |-> None, symbol |-> None, price |-> None, quantity |-> None],
     \* a type from_json does not know
     [type |-> Some("cancel"), symbol |-> Some("Vulyenne"),
      price |-> None, quantity |-> None],
     \* a buy without a price, a sell without a quantity, a buy without a symbol
     [type |-> Some("buy"), symbol |-> Some("Vulyenne"),
      price |-> None, quantity |-> Some(1)],
     [type |-> Some("sell"), symbol |-> Some("Vulyenne"),
      price |-> Some(10), quantity |-> None],
     [type |-> Some("buy"), symbol |-> None,
      price |-> Some(10), quantity |-> Some(1)]}

\* the single byte 0xFF: not UTF-8, the lossy text starts with the three
\* bytes of U+FFFD and byte index 1 is inside them
InvalidUtf8 ==
    [type |-> None, symbol |-> None, price |-> None, quantity |-> None,
     boundary |-> FALSE]

\* two actions, so that every kind of input is seen to be taken
SessionReadAny(id) == Read(id, SessionRequests, MaxRequests, TRUE) /\ UNCHANGED history

SessionReadBytes(id) == Read(id, {InvalidUtf8}, MaxRequests, TRUE) /\ UNCHANGED history

SessionNext ==
    \/ EngineTick /\ UNCHANGED history
    \/ EngineResolve /\ UNCHANGED history
    \/ EngineSend /\ UNCHANGED history
    \/ EngineQuery /\ UNCHANGED history
    \/ EngineIdle /\ UNCHANGED history
    \/ ServeAccept /\ UNCHANGED history
    \/ \E id \in 1..MaxConn : SessionReadAny(id)
    \/ \E id \in 1..MaxConn : SessionReadBytes(id)
    \/ \E id \in 1..MaxConn : SessionWrite(id) /\ UNCHANGED history
    \/ \E id \in 1..MaxConn : SessionClose(id) /\ UNCHANGED history

SpecSession == BookInit /\ [][SessionNext]_vars

\* ------------------------------------------------------------ SpecBatch
\* The two sessions again, with orders that make a resolve emit more than
\* one trade: the first client buys two units at a time, the second sells one.
BatchRequests(id) ==
    {[type |-> Some(IF id = 1 THEN "buy" ELSE "sell"), symbol |-> Some("Vulyenne"),
      price |-> Some(RoutePrice), quantity |-> Some(IF id = 1 THEN 2 ELSE 1)]}

\* two sells and the buy that takes both
BatchMaxRequests == MaxRequests + 1

BatchRead(id) == Read(id, BatchRequests(id), BatchMaxRequests, TRUE) /\ UNCHANGED history

BatchNext ==
    \/ EngineTick /\ UNCHANGED history
    \/ EngineResolve /\ UNCHANGED history
    \/ RouteSend
    \/ RouteQuery
    \/ EngineIdle /\ UNCHANGED history
    \/ RouteAccept
    \/ \E id \in RouteIds : BatchRead(id)
    \/ \E id \in RouteIds : SessionWrite(id) /\ UNCHANGED history
    \/ \E id \in RouteIds : SessionClose(id) /\ UNCHANGED history

SpecBatch == RouteInit /\ [][BatchNext]_vars

\* ------------------------------------------------------------ shutdown
\* serve: `sigint = signal::ctrl_c() => .. break;` and
\* `shutdown_signal_tx.send(true)`, which is Ok: serve holds a Receiver
ServeCtrlC ==
    /\ serve_pc = "accept"
    /\ serve_pc' = "join"
    /\ UNCHANGED <<bookVars, connections, market_rx, socket_rx, engine_pc, outbox,
                   current, tick, next_id, session, nextReq, pushed, stream,
                   capacity, pending, now>>

\* serve: `connection_future_set.join_all().await` returns when every
\* handler has ended; serve returns and its Sender is dropped
ServeJoin ==
    /\ serve_pc = "join"
    /\ \A id \in DOMAIN session : session[id] # "open"
    /\ serve_pc' = "done"
    /\ UNCHANGED <<bookVars, connections, market_rx, socket_rx, engine_pc, outbox,
                   current, tick, next_id, session, nextReq, pushed, stream,
                   capacity, pending, now>>

\* connection_handler: `_ = shutdown_signal.changed() => { socket.shutdown()..
\* break Ok(()) }`, a branch of the select the handler is in when it is not
\* inside the body of another branch
SessionShutdown(id) ==
    /\ session[id] = "open"
    /\ pending[id] = <<>>
    /\ serve_pc # "accept"
    /\ session' = [session EXCEPT ![id] = "closed"]
    /\ socket_rx' = [socket_rx EXCEPT ![id] = <<>>]
    /\ UNCHANGED <<bookVars, connections, market_rx, engine_pc, outbox, current,
                   tick, next_id, nextReq, pushed, stream, serve_pc, capacity,
                   pending, now>>

\* `Err(mpsc::error::TryRecvError::Disconnected) => break 'market_loop`
EngineExit ==
    /\ engine_pc = "dispatch"
    /\ outbox = <<>>
    /\ market_rx = <<>>
    /\ Disconnected
    /\ engine_pc' = "exit"
    /\ UNCHANGED <<bookVars, connections, market_rx, socket_rx, outbox, current,
                   tick, next_id, session, nextReq, pushed, stream, serve_pc,
                   capacity, pending, now>>

\* ------------------------------------------------------------ SpecFull
\* The server with channels that fill: the capacities are scaled down to
\* FullCapacity, the handler's send into the inbound channel is a step of its
\* own, and serve's ctrl_c branch is taken.
FullCapacity == 1

FullInit ==
    StartWith(1..MaxConn, [inbound |-> FullCapacity, outbound |-> FullCapacity])

FullRequests ==
    {[type |-> Some("ohlc"), symbol |-> Some("Vulyenne"),
      price |-> None, quantity |-> None]}

\* enough requests to fill both channels of a connection
FullMaxRequests == MaxRequests + FullCapacity

\* the ticks go on; they are counted up to MaxTicks
FullTick ==
    IF tick < MaxTicks THEN Tick(MaxTicks)
    ELSE /\ engine_pc = "tick"
         /\ engine_pc' = "resolve"
         /\ UNCHANGED <<bookVars, connections, market_rx, socket_rx, outbox,
                        current, tick, next_id, session, nextReq, pushed, stream,
                        serve_pc, capacity, pending, now>>

FullRead(id) == Read(id, FullRequests, FullMaxRequests, FALSE)

EngineStep ==
    \/ FullTick
    \/ EngineResolve
    \/ EngineSend
    \/ EngineQuery
    \/ EngineIdle
    \/ EngineExit

FullNext ==
    \/ FullTick /\ UNCHANGED history
    \/ EngineResolve /\ UNCHANGED history
    \/ EngineSend /\ UNCHANGED history
    \/ EngineQuery /\ UNCHANGED history
    \/ EngineIdle /\ UNCHANGED history
    \/ EngineExit /\ UNCHANGED history
    \/ ServeAccept /\ UNCHANGED history
    \/ ServeCtrlC /\ UNCHANGED history
    \/ ServeJoin /\ UNCHANGED history
    \/ \E id \in 1..MaxConn : FullRead(id) /\ UNCHANGED history
    \/ \E id \in 1..MaxConn : Forward(id) /\ UNCHANGED history
    \/ \E id \in 1..MaxConn : SessionWrite(id) /\ UNCHANGED history
    \/ \E id \in 1..MaxConn : SessionClose(id) /\ UNCHANGED history
    \/ \E id \in 1..MaxConn : SessionShutdown(id) /\ UNCHANGED history

SpecFull == FullInit /\ [][FullNext]_vars

\* The tasks are scheduled: the engine, serve's join and every handler take
\* the step they are ready for; a handler whose client keeps reading its
\* stream writes the responses it receives.  What the clients and ctrl_c do
\* is not required to happen.
FairFull ==
    /\ SpecFull
    /\ WF_vars(EngineStep /\ UNCHANGED history)
    /\ WF_vars(ServeJoin /\ UNCHANGED history)
    /\ \A id \in 1..MaxConn :
        /\ WF_vars(Forward(id) /\ UNCHANGED history)
        /\ WF_vars(SessionWrite(id) /\ UNCHANGED history)
        /\ SF_vars(SessionShutdown(id) /\ UNCHANGED history)

\* ------------------------------------------------------------ SpecStamp
\* Two sessions that each construct an order (Order::new takes the time in
\* from_json) and then send it into the shared inbound channel, as two steps:
\* the handlers are separate tasks and the send is an await point.
StampRequests ==
    {[type |-> Some(t), symbol |-> Some("Vulyenne"),
      price |-> Some(RoutePrice), quantity |-> Some(1)] : t \in {"buy", "sell"}}

StampRead(id) == Read(id, StampRequests, MaxRequests, FALSE)

StampNext ==
    \/ EngineTick /\ UNCHANGED history
    \/ EngineResolve /\ UNCHANGED history
    \/ EngineSend /\ UNCHANGED history
    \/ EngineQuery /\ UNCHANGED history
    \/ EngineIdle /\ UNCHANGED history
    \/ Accept(RouteIds) /\ UNCHANGED history
    \/ \E id \in RouteIds : StampRead(id) /\ UNCHANGED history
    \/ \E id \in RouteIds : Forward(id) /\ UNCHANGED history
    \/ \E id \in RouteIds : SessionWrite(id) /\ UNCHANGED history
    \/ \E id \in RouteIds : SessionClose(id) /\ UNCHANGED history

SpecStamp == RouteInit /\ [][StampNext]_vars

\* ------------------------------------------------------------ SpecFirst
\* Two sessions that send the orders of SpecStamp, with every message the
\* engine pushes on an outbound channel recorded in history.
PushedOn(id, response) == [event |-> "pushed", id |-> id, response |-> response]

FirstSend ==
    /\ EngineSend
    /\ history' = IF socket_rx' = socket_rx THEN history
                   ELSE Append(history, PushedOn(connections[Head(outbox).to],
                                                 Head(outbox).msg.response))

FirstRead(id) == Read(id, StampRequests, MaxRequests, TRUE)

FirstNext ==
    \/ EngineTick /\ UNCHANGED history
    \/ EngineResolve /\ UNCHANGED history
    \/ FirstSend
    \/ EngineQuery /\ UNCHANGED history
    \/ EngineIdle /\ UNCHANGED history
    \/ Accept(RouteIds) /\ UNCHANGED history
    \/ \E id \in RouteIds : FirstRead(id) /\ UNCHANGED history
    \/ \E id \in RouteIds : SessionWrite(id) /\ UNCHANGED history
    \/ \E id \in RouteIds : SessionClose(id) /\ UNCHANGED history

SpecFirst == RouteInit /\ [][FirstNext]_vars

\* ------------------------------------------------------------ trade notifications
\* the dispatch loop has made every send for the trades of the last resolve
DispatchDone == engine_pc = "dispatch" /\ outbox = <<>>

\* the sends made to connection c for the k-th trade of the last resolve
PushesTo(k, c) == {i \in 1..Len(pushed) : pushed[i].trade = k /\ pushed[i].to = c}

Parties(trade) == {trade.buyer_id, trade.seller_id}

\* C14 (as stated): for every trade of a resolve exactly one ExecutedTrade is
\* pushed to the buyer's sink and exactly one to the seller's sink, no
\* connection gets two ExecutedTrade for the same trade and no third
\* connection gets it.
C14_OnePerConnection ==
    DispatchDone =>
        \A k \in 1..Len(trades) :
            /\ Cardinality(PushesTo(k, trades[k].buyer_id)) = 1
            /\ Cardinality(PushesTo(k, trades[k].seller_id)) = 1
            /\ \A c \in RouteIds :
                /\ Cardinality(PushesTo(k, c)) <= 1
                /\ c \notin Parties(trades[k]) => PushesTo(k, c) = {}

\* the number of sides connection c has in a trade
Sides(trade, c) ==
    (IF trade.buyer_id = c THEN 1 ELSE 0) + (IF trade.seller_id = c THEN 1 ELSE 0)

\* C14 (amended): for every trade of a resolve the engine makes one send of
\* ExecutedTrade per side: a connection is sent the trade once for each side
\* (buyer, seller) it has in it, so twice when it is both and never when it is
\* neither, and only a send to a client that has gone is not delivered.
C14_OnePerSide ==
    /\ \A i \in 1..Len(pushed) :
        /\ pushed[i].trade \in 1..Len(trades)
        /\ pushed[i].msg = ExecutedTrade(trades[pushed[i].trade])
        /\ pushed[i].to \in Parties(trades[pushed[i].trade])
        /\ ~pushed[i].delivered => session[pushed[i].to] = "closed"
    /\ DispatchDone =>
        \A k \in 1..Len(trades) : \A c \in RouteIds :
            Cardinality(PushesTo(k, c)) = Sides(trades[k], c)

\* a trade between two connections has been sent to both and delivered
C14_Witness ==
    /\ DispatchDone
    /\ Len(trades) = 1
    /\ trades[1].buyer_id # trades[1].seller_id
    /\ Len(pushed) = 2
    /\ pushed[1].delivered /\ pushed[2].delivered

\* C15: for every trade the engine pushes ExecutedTrade to the buyer's sink
\* before the seller's sink, and makes both pushes of a trade before the
\* first push of the next: the sends of a dispatch are, in order, trade 1 to
\* its buyer, trade 1 to its seller, trade 2 to its buyer, ...
C15_BuyerFirst ==
    \A i \in 1..Len(pushed) :
        LET k == (i + 1) \div 2
        IN  /\ k <= Len(trades)
            /\ pushed[i].trade = k
            /\ pushed[i].msg = ExecutedTrade(trades[k])
            /\ pushed[i].to = IF i % 2 = 1 THEN trades[k].buyer_id
                              ELSE trades[k].seller_id

\* two trades between two connections have been dispatched
C15_Witness ==
    /\ DispatchDone
    /\ Len(trades) = 2
    /\ Len(pushed) = 4
    /\ \A k \in 1..2 : trades[k].buyer_id # trades[k].seller_id
    /\ \A i \in 1..4 : pushed[i].delivered

\* ------------------------------------------------------------ order of the replies
\* the numbers of the requests of connection id that are not answered on its
\* socket yet: in the inbound channel, being answered, or in its outbound channel
Unanswered(id) ==
    {market_rx[i].req : i \in {i \in 1..Len(market_rx) :
                                  market_rx[i].id = id /\ market_rx[i].req # 0}}
    \cup {outbox[i].req : i \in {i \in 1..Len(outbox) :
                                    outbox[i].to = id /\ outbox[i].req # 0}}
    \cup {socket_rx[id][i].req : i \in {i \in 1..Len(socket_rx[id]) :
                                           socket_rx[id][i].req # 0}}

\* C16: on every connection the replies are written to the stream in the
\* order of the requests, whether the engine or the session answers them: no
\* request is still unanswered when a later one of the connection is answered.
C16_RepliesInRequestOrder ==
    \A id \in DOMAIN stream : \A req \in Unanswered(id) : req > stream[id].req

\* ------------------------------------------------------------ scenario S6
\* the places in history where the engine admitted the order of connection
\* id of the given type on symbol
AdmittedOrders(id, type, symbol) ==
    {i \in 1..Len(history) :
        /\ history[i].event = "admitted" /\ history[i].id = id
        /\ history[i].type = type /\ history[i].symbol = symbol}

\* the engine has done all the work of tick t
TickDone(t) == tick > t \/ (tick = t /\ engine_pc = "tick")

\* ExecutedTrade was pushed to connection id after place i of history and
\* not later than tick t
PushedAfter(id, i, t) ==
    \E p \in 1..Len(history) :
        /\ p > i
        /\ history[p].event = "pushed" /\ history[p].id = id
        /\ history[p].tick <= t

Later(a, b) == IF a >= b THEN a ELSE b

\* with both clients connected, once A's buy and B's sell on symbol are
\* both admitted, the trade is pushed to A and to B within two ticks
S6_Bounded(symbol) ==
    \A i \in AdmittedOrders(1, "Buy", symbol) :
        \A j \in AdmittedOrders(2, "Sell", symbol) :
            LET t == Later(history[i].tick, history[j].tick) + 2
            IN  (/\ session[1] = "open" /\ session[2] = "open"
                 /\ TickDone(t))
                => /\ PushedAfter(1, Later(i, j), t)
                   /\ PushedAfter(2, Later(i, j), t)

\* C17: scenario S6: A (id 1) sends buy("V", 10.00, 1), B (id 2) sends
\* sell("V", 10.00, 1); after the engine has admitted both, ExecutedTrade is
\* pushed to A's sink and to B's sink within two engine ticks.
C17_ScenarioS6 == S6_Bounded("V")

\* the scenario with the orders placed on "Vulyenne", the name of the book
S6_ByName == S6_Bounded("Vulyenne")

\* both orders of S6 on the name have been admitted, two ticks have gone by
\* and both clients are connected
S6_ByName_Reached ==
    /\ AdmittedOrders(1, "Buy", "Vulyenne") # {}
    /\ AdmittedOrders(2, "Sell", "Vulyenne") # {}
    /\ session[1] = "open" /\ session[2] = "open"
    /\ tick = RouteTicks /\ engine_pc = "tick"

\* ------------------------------------------------------------ resolve_query
\* the engine takes the oldest (id, query) of the inbound channel in this step
Dequeues ==
    /\ engine_pc = "dispatch" /\ outbox = <<>> /\ market_rx # <<>>
    /\ market_rx' = Tail(market_rx)

\* the engine makes the send that answers the query it dequeued last
Answers == engine_pc = "reply" /\ outbox # <<>> /\ outbox' = Tail(outbox)

\* what one send of msg does to the outbound channels: queued in the
\* channel of the sink, or nothing when the client is gone
SentTo(sink, msg, req) ==
    socket_rx' = IF session[sink] = "closed" THEN socket_rx
                 ELSE [socket_rx EXCEPT ![sink] = Append(@, [msg |-> msg, req |-> req])]

\* C18: when the engine dequeues (conn_id, Connect(sink)) it inserts
\* conn_id -> sink into the registry, whether or not conn_id was registered,
\* changes no book, and pushes exactly one Connected onto that sink.
C18_Connect ==
    [][/\ (Dequeues /\ Head(market_rx).query.type = "Connect") =>
            LET conn_id == Head(market_rx).id
                sink    == Head(market_rx).query.sink[1]
            IN  /\ connections' = MapInsert(connections, conn_id, sink)
                /\ market' = market
                /\ engine_pc' = "reply"
                /\ Len(outbox') = 1
                /\ outbox'[1].to = conn_id /\ outbox'[1].msg = Connected
                /\ current' = <<Head(market_rx)>>
       /\ (Answers /\ current[1].query.type = "Connect") =>
            /\ SentTo(current[1].query.sink[1], Connected, 0)
            /\ outbox' = <<>>
            /\ UNCHANGED <<connections, market>>
      ]_vars

\* the Connect of a connection that was not registered has been handled:
\* the connection is registered and Connected is in its sink
C18_Witness ==
    /\ 1 \in DOMAIN connections
    /\ connections[1] = 1
    /\ socket_rx[1] = <<[msg |-> Connected, req |-> 0]>>
    /\ market = InitialMarket

\* symbol -> the key of the book that has this symbol
BookOfSymbol ==
    [sym \in {market[key].symbol : key \in DOMAIN market} |->
        CHOOSE key \in DOMAIN market : market[key].symbol = sym]

\* key -> the key: the books by the key Market stores them under
BookOfKey == [key \in DOMAIN market |-> key]

\* queue new is queue old with one order of the query put in
Appended(old, new, order) ==
    /\ Len(new) = Len(old) + 1
    /\ LET o == AddedOrder(old, new)
       IN  /\ o.creator_id = order.creator_id /\ o.price = order.price
           /\ o.quantity = order.quantity /\ o.time = order.time
    /\ \E i \in 1..Len(new) :
        old = [j \in 1..Len(old) |-> IF j < i THEN new[j] ELSE new[j + 1]]

\* the one reply of this dequeue is msg, to connection id
Replies(id, msg) ==
    /\ Len(outbox') = 1
    /\ outbox'[1].to = id /\ outbox'[1].msg = msg
    /\ engine_pc' = "reply"

\* What the steps of the engine do with a query that names a symbol, when
\* book_of tells which symbols have a book: a query from a registered
\* connection on a symbol with no book is answered SymbolNotFound once and
\* changes neither the market nor the registry; a Buy or Sell on a symbol
\* with a book puts one order in that book and is answered OrderPosted once.
SymbolStep(book_of) ==
    /\ (/\ Dequeues
        /\ Head(market_rx).query.type # "Connect"
        /\ Head(market_rx).id \in DOMAIN connections) =>
            LET id    == Head(market_rx).id
                query == Head(market_rx).query
            IN  IF query.symbol \notin DOMAIN book_of
                THEN /\ Replies(id, SymbolNotFound)
                     /\ UNCHANGED <<market, connections>>
                ELSE query.type \in {"Buy", "Sell"} =>
                     LET key == book_of[query.symbol]
                     IN  /\ Replies(id, OrderPosted)
                         /\ connections' = connections
                         /\ DOMAIN market' = DOMAIN market
                         /\ \A k \in DOMAIN market \ {key} : market'[k] = market[k]
                         /\ market'[key].ohlc = market[key].ohlc
                         /\ IF query.type = "Buy"
                            THEN /\ Appended(market[key].buy_orders,
                                             market'[key].buy_orders, query.order[1])
                                 /\ market'[key].sell_orders = market[key].sell_orders
                            ELSE /\ Appended(market[key].sell_orders,
                                             market'[key].sell_orders, query.order[1])
                                 /\ market'[key].buy_orders = market[key].buy_orders
    /\ (Answers /\ current[1].query.type # "Connect") =>
            /\ SentTo(connections[current[1].id], outbox[1].msg, current[1].req)
            /\ outbox' = <<>>
            /\ UNCHANGED <<connections, market>>

\* C19: a Buy, Sell, Ohlc, BuyOrders or SellOrders query from a registered
\* connection that names a symbol with no book gets exactly one
\* SymbolNotFound and leaves the Market and the registry unchanged; a Buy or
\* Sell naming (by its symbol) an existing book appends exactly one order to
\* that book and gets exactly one OrderPosted.
C19_SymbolHandling == [][SymbolStep(BookOfSymbol)]_vars

\* the same with "naming a book" read as giving the key it is stored under
SymbolHandlingByKey == [][SymbolStep(BookOfKey)]_vars

\* an order on the key of the book has been posted and answered OrderPosted
SymbolHandlingByKey_Reached ==
    /\ \E key \in DOMAIN market :
        Len(market[key].buy_orders) + Len(market[key].sell_orders) > 0
    /\ \E id \in DOMAIN socket_rx : \E i \in 1..Len(socket_rx[id]) :
        socket_rx[id][i].msg = OrderPosted

\* ------------------------------------------------------------ clients that are gone
\* the send the engine is about to make cannot be delivered: the sink is not
\* in the registry or its client is gone
HeadUndeliverable ==
    /\ engine_pc \in {"dispatch", "reply"}
    /\ outbox # <<>>
    /\ \/ Head(outbox).to \notin DOMAIN connections
       \/ session[connections[Head(outbox).to]] = "closed"

\* C20: a sink that is missing or whose client is gone never stops the
\* engine: the send is skipped at once, the other party of the trade and the
\* parties of the remaining trades of the resolve still get their sends (each
\* delivered unless that client is gone too), and the engine goes on to
\* dequeue and answer the queries that are waiting.
C20_NonDeliveryNotFatal ==
    /\ HeadUndeliverable => ENABLED RouteSend
    /\ \A i \in 1..Len(pushed) :
        ~pushed[i].delivered => session[pushed[i].to] = "closed"
    /\ DispatchDone =>
        /\ Len(pushed) = 2 * Len(trades)
        /\ \A k \in 1..Len(trades) :
            /\ pushed[2 * k - 1].to = trades[k].buyer_id
            /\ pushed[2 * k].to = trades[k].seller_id
        /\ (\E i \in 1..Len(pushed) : ~pushed[i].delivered) =>
            IF market_rx # <<>> THEN ENABLED RouteQuery ELSE ENABLED EngineIdle
    /\ (engine_pc = "reply" /\ current # <<>>) =>
        /\ Len(outbox) = 1
        /\ outbox[1].to = current[1].id
        /\ outbox[1].req = current[1].req

\* the buyer of two trades of one resolve is gone: both sends to it failed
\* and both sends to the seller were delivered
C20_Witness ==
    /\ DispatchDone
    /\ Len(trades) = 2
    /\ Len(pushed) = 4
    /\ ~pushed[1].delivered /\ pushed[2].delivered
    /\ ~pushed[3].delivered /\ pushed[4].delivered
    /\ pushed[1].to # pushed[2].to

\* after a send to a client that is gone failed, a query of the other
\* connection was dequeued and its reply was written to its stream
AnsweredAfterFailure ==
    \E i, j \in 1..Len(history) :
        /\ i < j
        /\ history[i].event = "failed"
        /\ history[j].event = "admitted" /\ history[j].id # history[i].id
        /\ stream[history[j].id].req = nextReq
        /\ nextReq = BatchMaxRequests

\* ------------------------------------------------------------ malformed requests
\* the requests of the clients that from_json rejects
MalformedRequests ==
    {json \in SessionRequests \cup {InvalidUtf8} : from_json(json, 0, 0) = None}

\* this step is the session reading request json on connection id
ReadsRequest(id, json) == Read(id, {json}, MaxRequests, TRUE)

\* what is claimed of a request that cannot be parsed
AnsweredMalformed(id) ==
    /\ stream'[id] = [req |-> nextReq + 1, text |-> <<"malformed request">>]
    /\ market_rx' = market_rx
    /\ market' = market
    /\ connections' = connections
    /\ session' = session /\ session'[id] = "open"
    /\ UNCHANGED <<socket_rx, outbox, engine_pc>>

\* C21: a request the session cannot parse (bad JSON, unknown type, a buy or
\* sell without symbol, price or quantity) is answered by the session with
\* the literal malformed-request reply, puts nothing on the inbound channel,
\* changes neither the Market nor the registry, and leaves the session open.
C21_Malformed ==
    [][\A id \in DOMAIN session : \A json \in MalformedRequests :
          ReadsRequest(id, json) => AnsweredMalformed(id)]_vars

\* the same for the malformed requests whose bytes are UTF-8
MalformedText ==
    [][\A id \in DOMAIN session :
          \A json \in {r \in MalformedRequests : is_char_boundary(r)} :
              ReadsRequest(id, json) => AnsweredMalformed(id)]_vars

\* a malformed first request was answered by the session and the second
\* request of the same connection is on its way to the engine
MalformedText_Reached ==
    /\ Cardinality(MalformedRequests) = 6
    /\ \E id \in DOMAIN session :
        /\ session[id] = "open"
        /\ stream[id] = [req |-> 1, text |-> <<"malformed request">>]
        /\ \E i \in 1..Len(market_rx) : market_rx[i].id = id /\ market_rx[i].req = 2

\* ------------------------------------------------------------ full channels
\* the engine is suspended in a send to the full outbound channel of the
\* running handler of connection id
EngineWaitsOn(id) ==
    /\ engine_pc \in {"dispatch", "reply"}
    /\ outbox # <<>>
    /\ Head(outbox).to \in DOMAIN connections
    /\ connections[Head(outbox).to] = id
    /\ session[id] = "open"
    /\ Len(socket_rx[id]) >= capacity.outbound

\* the handler of connection id is suspended in its send into the full
\* inbound channel
SessionWaits(id) ==
    /\ session[id] = "open"
    /\ pending[id] # <<>>
    /\ Len(market_rx) >= capacity.inbound

\* C24: the engine and a session never wait on each other: there is no
\* reachable state in which the engine is suspended pushing to a session's
\* full outbound queue while that session is suspended pushing a query into
\* the full inbound channel.
C24_NoMutualWait ==
    \A id \in DOMAIN session : ~(EngineWaitsOn(id) /\ SessionWaits(id))

\* the server has shut down: no handler runs, serve has returned, the engine
\* has left its loop
Terminated == Disconnected /\ engine_pc = "exit"

\* C22: once the shutdown signal is broadcast, every session task ends, the
\* accept loop returns and drops its Sender, and the engine sees the inbound
\* channel empty and disconnected and leaves its loop.
C22_ShutdownTerminates == (serve_pc # "accept") ~> Terminated

\* the outbound channel of connection id changes only by a push at its tail
\* while it has room, by the handler receiving its head, or by the handler
\* ending and dropping it
QueueStep(id) ==
    \/ socket_rx'[id] = socket_rx[id]
    \/ /\ Len(socket_rx[id]) < capacity.outbound
       /\ outbox # <<>>
       /\ socket_rx'[id] = Append(socket_rx[id], [msg |-> Head(outbox).msg,
                                                  req |-> Head(outbox).req])
    \/ /\ socket_rx[id] # <<>>
       /\ socket_rx'[id] = Tail(socket_rx[id])
    \/ /\ session[id] = "open"
       /\ session'[id] # "open"
       /\ socket_rx'[id] = <<>>

\* blocking delivery: nothing is discarded, reordered or overwritten on the
\* outbound channel of a running handler
DeliveryInOrder ==
    [][\A id \in DOMAIN session : id \in DOMAIN session' => QueueStep(id)]_vars

\* a push that found the outbound channel of a running handler full and
\* waited
BlockedPush == \E id \in DOMAIN session : EngineWaitsOn(id)

\* C23: every message the engine pushes to a live sink is eventually received
\* by its session in push order: while the handler runs, an outbound queue
\* holding n messages eventually holds fewer, its head having been received.
C23_EventuallyReceived ==
    \A id \in 1..MaxConn : \A n \in 1..FullCapacity :
        (id \in DOMAIN session /\ session[id] = "open" /\ Len(socket_rx[id]) = n)
            ~> (session[id] # "open" \/ Len(socket_rx[id]) < n)

\* ------------------------------------------------------------ time priority
\* orders of equal price sit in the queue in ascending order of their time
ByTimeWithinPrice(orders) ==
    \A i, j \in 1..Len(orders) :
        (i < j /\ orders[i].price = orders[j].price)
            => get_time(orders[i]) <= get_time(orders[j])

\* C25: with orders constructed and timestamped by independent session tasks
\* and sent through the shared inbound channel, orders of equal price always
\* sit in a book queue in ascending timestamp order.
C25_TimePriority ==
    \A key \in DOMAIN market :
        /\ ByTimeWithinPrice(market[key].buy_orders)
        /\ ByTimeWithinPrice(market[key].sell_orders)

\* ------------------------------------------------------------ registry
\* the send the engine makes next is to the sink of connection id, which is
\* registered and whose handler has ended: the send fails
FailedSendTo(id) ==
    /\ engine_pc \in {"dispatch", "reply"}
    /\ outbox # <<>>
    /\ Head(outbox).to = id
    /\ id \in DOMAIN connections
    /\ session[connections[id]] = "closed"

\* no step of the server takes an id out of the registry
RegistryKept == [][DOMAIN connections \subseteq DOMAIN connections']_vars

\* C26: after a client disconnects and a later send to its sink fails, the
\* engine eventually removes that connection id from the registry (at the
\* latest when the server is shut down).
C26_LazyPruning ==
    \A id \in 1..MaxConn :
        FailedSendTo(id) ~> (id \notin DOMAIN connections \/ serve_pc # "accept")

\* ------------------------------------------------------------ trade quantity
\* C27: every trade emitted by resolve has quantity >= 1, and with it every
\* update of the OHLC is by a trade of quantity >= 1, whatever orders were
\* submitted (orders of quantity 0 included).
C27_PositiveTrades ==
    last_op = "resolve" =>
        \A i \in 1..Len(trades) : trades[i].quantity >= 1

\* ------------------------------------------------------------ uncrossed book
Uncrossed(stock) ==
    \/ stock.buy_orders = <<>>
    \/ stock.sell_orders = <<>>
    \/ \A i \in 1..Len(stock.buy_orders), j \in 1..Len(stock.sell_orders) :
           get_price(stock.buy_orders[i]) < get_price(stock.sell_orders[j])

\* C28: when resolve returns, either one queue is empty or the highest
\* remaining buy price is strictly less than the lowest remaining sell price.
C28_UncrossedAfterResolve ==
    last_op = "resolve" => \A key \in DOMAIN market : Uncrossed(market[key])

\* A resolve that traded and left orders in both queues, the buy order below
\* the sell order.
C28_Witness ==
    /\ last_op = "resolve"
    /\ trades # <<>>
    /\ \E key \in DOMAIN market :
        /\ market[key].buy_orders # <<>>
        /\ market[key].sell_orders # <<>>
        /\ Uncrossed(market[key])

\* ------------------------------------------------------------ registration
\* the k-th query of the inbound channel is a Connect
IsConnect(k) == market_rx[k].query.type = "Connect"

\* the Connect of the connection is ahead of the k-th query in the channel
ConnectAhead(k) ==
    \E j \in 1..(k - 1) : IsConnect(j) /\ market_rx[j].id = market_rx[k].id

\* C29: the Connect of a connection is enqueued before any other query with
\* its id: every other query in the inbound channel is of a registered id or
\* behind its Connect, and a handler that holds a query to send is in the same
\* position, so the query the engine dequeues next is never of an unknown id.
C29_RegistrationPrecedesUse ==
    /\ \A k \in 1..Len(market_rx) :
           ~IsConnect(k) =>
               (market_rx[k].id \in DOMAIN connections \/ ConnectAhead(k))
    /\ \A id \in DOMAIN pending :
           pending[id] # <<>> =>
               \/ id \in DOMAIN connections
               \/ \E j \in 1..Len(market_rx) : IsConnect(j) /\ market_rx[j].id = id

\* A query is in the channel while its connection is not yet registered: its
\* Connect is still ahead of it.
C29_Witness ==
    \E k \in 1..Len(market_rx) :
        /\ ~IsConnect(k)
        /\ market_rx[k].id \notin DOMAIN connections
        /\ ConnectAhead(k)

\* ------------------------------------------------------------ Connected
\* the responses pushed on the outbound channel of connection id, in order
PushesOn(id) ==
    SelectSeq(history, LAMBDA e : e.event = "pushed" /\ e.id = id)

\* C30: on every connection's outbound channel the first message the engine
\* pushes is Connected, and Connected is pushed once: no reply and no
\* ExecutedTrade precedes it.
C30_ConnectedFirst ==
    \A id \in RouteIds :
        LET log == PushesOn(id)
        IN  \A i \in 1..Len(log) : (log[i].response = "Connected") <=> (i = 1)

\* A connection that was pushed Connected, the reply to its order and the
\* trade of that order.
C30_Witness ==
    \E id \in RouteIds :
        LET log == PushesOn(id)
        IN  /\ Len(log) >= 3
            /\ \E i \in 1..Len(log) : log[i].response = "OrderPosted"
            /\ \E i \in 1..Len(log) : log[i].response = "ExecutedTrade"

====
